---------------------------- MODULE Spec2Model ----------------------------
(***************************************************************************)
(* A model of agent-rs: the planning/generation loop of Agent::_run_stream *)
(* (src/src/agents.rs), the model capability it calls (src/src/models.rs), *)
(* the action layer (src/src/actions.rs) and the memory log                *)
(* (src/src/memory.rs).                                                    *)
(*                                                                         *)
(* Text is a sequence of pieces (characters or words); a chunk of a model  *)
(* stream is a sequence of bytes, of which BadByte is one that is not      *)
(* valid UTF-8.                                                            *)
(***************************************************************************)
EXTENDS Integers, Sequences, FiniteSets, TLC

VARIABLES
    agent,        \* the Agent struct: max_steps, stream_outputs, interrupt_switch, ...
    task,         \* the argument of run()
    pc,           \* where the generator of _run_stream stands
    demand,       \* TRUE while the caller's next() on the output stream is being served
    step,         \* the loop variable of `for step in 1..=max_steps`
    buffer,       \* the plan text accumulated in this iteration
    plan_stream,  \* what is left of the plan stream of this iteration
    gen_stream,   \* what is left of the generation stream of this iteration
    chunk,        \* the chunk about to be yielded
    output,       \* the chunks the caller has received, in order
    produced,     \* history: the chunks taken from model streams, in order
    calls,        \* history: the model calls made, in order
    memory,       \* the AgentMemory: system prompt and steps
    act_log,      \* history: the invocations of Action::act
    the_action,   \* action layer: the action prepare_inputs / act is called on
    inputs,       \* action layer: the Vec<ActionInput> passed in
    matched,      \* action layer: the map prepare_inputs returned
    act_pc,       \* action layer: "ready", "prepared", "iterated", "acted"
    act_result,   \* action layer: what act() ended with
    mem_call,     \* memory log: the last operation on the AgentMemory and its result
    registry,     \* CallbackRegistry.callbacks: TypeId -> Vec<Callback>
    registered,   \* history: the register calls, in order
    notified,     \* history: the last callback(step) call and the callbacks it invoked
    timing,       \* the Timing duration() is called on
    duration,     \* what Timing::duration ended with
    runs,         \* concurrent runs: RunIds -> the state of one generator
    shared_model, \* concurrent runs: the model behind the shared agent
    prompt_call,  \* planning prompt: the last call of plan's message construction
    rendering     \* to_message: the step rendered and what each summary mode returned

runVars == <<agent, task, pc, demand, step, buffer, plan_stream, gen_stream,
             chunk, output, produced, calls, memory>>
actVars == <<the_action, inputs, matched, act_pc, act_result>>
libVars == <<mem_call, registry, registered, notified, timing, duration, runs, shared_model,
             prompt_call, rendering>>
vars == <<agent, task, pc, demand, step, buffer, plan_stream, gen_stream,
          chunk, output, produced, calls, memory, act_log,
          the_action, inputs, matched, act_pc, act_result,
          mem_call, registry, registered, notified, timing, duration, runs, shared_model,
          prompt_call, rendering>>

(***************************************************************************)
(* Bounds                                                                  *)
(***************************************************************************)
MaxStepsBound == 2

(***************************************************************************)
(* Text helpers                                                            *)
(***************************************************************************)
RECURSIVE Flatten(_)
\* String::push_str / join over a sequence of texts
Flatten(ss) == IF ss = <<>> THEN <<>> ELSE Head(ss) \o Flatten(Tail(ss))

BadByte == "\\xFF"
ReplacementChar == "U+FFFD"

\* String::from_utf8_lossy(&bytes).to_string(): every byte that is not valid
\* UTF-8 becomes U+FFFD, the others are kept.
FromUtf8Lossy(bytes) ==
    [i \in DOMAIN bytes |-> IF bytes[i] = BadByte THEN ReplacementChar ELSE bytes[i]]

\* str::replace(pat, to) for a placeholder pattern: every occurrence of the
\* piece `pat` is replaced by the text `to`.
RECURSIVE Replace(_, _, _)
Replace(text, pat, to) ==
    IF text = <<>> THEN <<>>
    ELSE (IF Head(text) = pat THEN to ELSE <<Head(text)>>) \o Replace(Tail(text), pat, to)

RECURSIVE Join(_, _)
\* [String]::join(sep)
Join(ss, sep) ==
    IF ss = <<>> THEN <<>>
    ELSE IF Len(ss) = 1 THEN ss[1]
    ELSE ss[1] \o sep \o Join(Tail(ss), sep)


(***************************************************************************)
(* The action layer: Parameter, ActionInput, ActionBase                    *)
(***************************************************************************)
String == <<"S", "t", "r", "i", "n", "g">>

\* Parameter { name, dtype, description }
Parameter(name, dtype, description) ==
    [name |-> name, dtype |-> dtype, description |-> description]

\* ActionInput { key, value, dtype }
ActionInput(key, value, dtype) == [key |-> key, value |-> value, dtype |-> dtype]

\* DuckDuckGoSearchAction::new()
DuckDuckGoSearchAction ==
    [name |-> "DuckDuckGoSearchAction",
     description |-> "Search the web using DuckDuckGo",
     parameters |-> <<Parameter("query", String, "Search query")>>,
     output_type |-> String]

\* NaverNewsSearchAction::new(client_id, client_secret)
NaverNewsSearchAction ==
    [name |-> "NaverNewsSearchAction",
     description |-> "Search the web using Naver News",
     parameters |-> <<Parameter("query", String, "Search query")>>,
     output_type |-> String]

\* {:?} of one Parameter (derived Debug)
DebugParameter(p) ==
    <<"Parameter { name: ", p.name, ", dtype: ">> \o p.dtype
        \o <<", description: ", p.description, " }">>

\* {:?} of Vec<Parameter>
DebugParameters(ps) ==
    <<"[">> \o Join([i \in DOMAIN ps |-> DebugParameter(ps[i])], <<", ">>) \o <<"]">>

\* Action::as_str of both concrete actions
as_str(a) ==
    <<"- ", a.name, ": ", a.description, "\n\tTakes inputs: ">>
        \o DebugParameters(a.parameters)
        \o <<"\n\tReturns an output of type: ">> \o a.output_type

(***************************************************************************)
(* Action::prepare_inputs                                                  *)
(***************************************************************************)
\* u8::to_ascii_lowercase on the letters that occur in the dtypes
to_ascii_lowercase(c) ==
    CASE c = "S" -> "s"
      [] c = "T" -> "t"
      [] c = "R" -> "r"
      [] c = "I" -> "i"
      [] c = "N" -> "n"
      [] c = "G" -> "g"
      [] OTHER -> c

\* str::eq_ignore_ascii_case
eq_ignore_ascii_case(a, b) ==
    /\ Len(a) = Len(b)
    /\ \A i \in DOMAIN a : to_ascii_lowercase(a[i]) = to_ascii_lowercase(b[i])

\* A faulty closure: it compares the key only
InputMatchesKeyOnly(param, input) == param.name = input.key

\* The closure of `find`: param.name == input.key && dtype equal ignoring case
InputMatches(param, input) ==
    param.name = input.key /\ eq_ignore_ascii_case(param.dtype, input.dtype)

\* A faulty find: the last input the closure accepts
FindLast(param, ins) ==
    IF \E i \in DOMAIN ins : InputMatches(param, ins[i])
    THEN CHOOSE i \in DOMAIN ins :
           /\ InputMatches(param, ins[i])
           /\ \A j \in (i + 1)..Len(ins) : ~InputMatches(param, ins[j])
    ELSE 0

\* inputs.iter().find(..): the index of the first input the closure accepts, 0 for None
FindFirst(param, ins) ==
    IF \E i \in DOMAIN ins : InputMatches(param, ins[i])
    THEN CHOOSE i \in DOMAIN ins :
           /\ InputMatches(param, ins[i])
           /\ \A j \in 1..(i - 1) : ~InputMatches(param, ins[j])
    ELSE 0

\* filter_map over the parameters, in declaration order: the (name, input) pairs
RECURSIVE MatchedPairs(_, _)
MatchedPairs(params, ins) ==
    IF params = <<>> THEN <<>>
    ELSE LET i == FindFirst(Head(params), ins)
         IN  (IF i = 0 THEN <<>> ELSE << <<Head(params).name, ins[i]>> >>)
               \o MatchedPairs(Tail(params), ins)

\* collect() into a HashMap: pairs are inserted in order, an insert under a key
\* that is present replaces the value.
RECURSIVE HashMapCollect(_)
HashMapCollect(pairs) ==
    IF pairs = <<>> THEN <<>>
    ELSE LET rest == HashMapCollect(SubSeq(pairs, 1, Len(pairs) - 1))
             last == pairs[Len(pairs)]
         IN  [k \in DOMAIN rest \cup {last[1]} |-> IF k = last[1] THEN last[2] ELSE rest[k]]

prepare_inputs(a, ins) == HashMapCollect(MatchedPairs(a.parameters, ins))

(***************************************************************************)
(* The prompt templates (Prompt.planning), as load_config returns them.    *)
(* A placeholder is one piece of the template text.                        *)
(***************************************************************************)
PromptTemplates ==
    [initial_plan |-> <<"Plan for: ", "{task}", " Tools: ", "{tools}",
                        " Team: ", "{managed_agents}">>,
     update_plan_pre_messages |-> <<"Update the plan.">>,
     update_plan_post_messages |-> <<"Task was: ", "{task}">>,
     system_prompt |-> <<"You are an agent.">>]

\* A message: HashMap {"role": role, "content": content}
Message(role, content) == [role |-> role, content |-> content]

(***************************************************************************)
(* The model capability: what one async_generate_stream call answers.      *)
(* Err, or Ok with a finite stream of byte chunks.                         *)
(***************************************************************************)
ModelStreams ==
    { <<>>,
      << <<"P", "L">>, <<"A", "N">> >>,
      << <<"4">> >>,
      << <<"call:DuckDuckGoSearchAction">>, <<BadByte>> >> }

ModelResults ==
    {[ok |-> FALSE, chunks |-> <<>>]} \cup {[ok |-> TRUE, chunks |-> s] : s \in ModelStreams}

\* A faulty async_generate: the bytes of the chunks are taken as they are
async_generate_text_raw(chunks) == Flatten(chunks)

\* Model::async_generate on a stream that was obtained: collect the chunks and
\* push the lossy text of each onto the output, in order.
RECURSIVE async_generate_text(_)
async_generate_text(chunks) ==
    IF chunks = <<>> THEN <<>>
    ELSE FromUtf8Lossy(Head(chunks)) \o async_generate_text(Tail(chunks))

(***************************************************************************)
(* Agent::plan: the input messages of the planning call                    *)
(***************************************************************************)
\* A faulty tools text: the descriptions follow each other without a separator
tools_str_unseparated(actions) == Flatten([i \in DOMAIN actions |-> as_str(actions[i])])

\* available_actions.iter().map(|a| a.as_str()).collect::<Vec<_>>().join("\n")
tools_str(actions) == Join([i \in DOMAIN actions |-> as_str(actions[i])], <<"\n">>)

\* A faulty plan: the initial prompt is sent whatever is_initial says
PlanInputMessagesAlwaysInitial(state, is_initial) ==
    << Message("user",
         Replace(Replace(Replace(agent.prompt.initial_plan, "{task}", state),
                         "{tools}", tools_str(agent.available_actions)),
                 "{managed_agents}", <<>>)) >>

PlanInputMessages(state, is_initial) ==
    IF is_initial
    THEN << Message("user",
              Replace(Replace(Replace(agent.prompt.initial_plan, "{task}", state),
                              "{tools}", tools_str(agent.available_actions)),
                      "{managed_agents}", <<>>)) >>
    ELSE << Message("system", agent.prompt.update_plan_pre_messages),
            Message("user", Replace(agent.prompt.update_plan_post_messages, "{task}", state)) >>

(***************************************************************************)
(* Agent::_run_stream: the messages of the generation call                 *)
(***************************************************************************)
\* (Fence stands for the three backquotes of the format string.)
Fence == "<fence>"

plan_for_generation(buf) ==
    <<"Here are the facts I know and the plan of action that I will follow to solve the task:\n",
      Fence, "\n">> \o buf \o <<"\n", Fence>>

GenMessages(buf, task_str) ==
    << Message("system", plan_for_generation(buf)), Message("user", task_str) >>


(***************************************************************************)
(* Construction: Agent::new and the AgentMemory of the agent               *)
(***************************************************************************)
Tasks == { <<"What is 2+2?">> }

\* Agent::new(model, max_steps, available_actions, stream_outputs)
AgentNew(max_steps, available_actions, stream_outputs) ==
    [max_steps |-> max_steps,
     prompt |-> PromptTemplates,
     available_actions |-> available_actions,
     stream_outputs |-> stream_outputs,
     interrupt_switch |-> FALSE,
     planning_interval |-> "None"]

\* AgentMemory { system_prompt, steps }
AgentMemoryNew(system_prompt) ==
    [system_prompt |-> [system_prompt |-> system_prompt], steps |-> <<>>]

NoStream == [kind |-> "None", items |-> <<>>]

ActIdle ==
    /\ the_action = DuckDuckGoSearchAction
    /\ inputs = <<>>
    /\ matched = <<>>
    /\ act_pc = "idle"
    /\ act_result = "none"

\* No memory operation, registry, Timing, concurrent run, prompt construction
\* or rendering is in use
MemIdle == mem_call = "idle"
RegIdle == registry = <<>> /\ registered = <<>> /\ notified = "idle"
TimingIdle == timing = "idle" /\ duration = "idle"
ConcIdle == runs = <<>> /\ shared_model = "idle"
PromptIdle == prompt_call = "idle"
RenderIdle == rendering = "idle"
LibIdle == MemIdle /\ RegIdle /\ TimingIdle /\ ConcIdle /\ PromptIdle /\ RenderIdle

\* The state when run(task) has returned the output stream and nothing has
\* polled it yet.
RunInit ==
    /\ agent \in { AgentNew(m, <<DuckDuckGoSearchAction, NaverNewsSearchAction>>, s) :
                     m \in 0..MaxStepsBound, s \in BOOLEAN }
    /\ task \in Tasks
    /\ pc = "loop"
    /\ demand = FALSE
    /\ step = 0
    /\ buffer = <<>>
    /\ plan_stream = NoStream
    /\ gen_stream = NoStream
    /\ chunk = <<>>
    /\ output = <<>>
    /\ produced = <<>>
    /\ calls = <<>>
    /\ memory = AgentMemoryNew(PromptTemplates.system_prompt)
    /\ act_log = <<>>

Init == RunInit /\ ActIdle /\ LibIdle

(***************************************************************************)
(* The caller of the output stream                                         *)
(***************************************************************************)
\* stream.next(): the generator runs until its next yield, its end or a panic.
Pull ==
    /\ ~demand
    /\ pc \notin {"done", "panicked"}
    /\ demand' = TRUE
    /\ UNCHANGED <<agent, task, pc, step, buffer, plan_stream, gen_stream, chunk,
                   output, produced, calls, memory, act_log, actVars, libVars>>

(***************************************************************************)
(* Agent::_run_stream, one action per stretch of the generator             *)
(***************************************************************************)
\* A faulty loop header: the loop variable advances by two
NextStepSkipping ==
    /\ demand /\ pc = "loop"
    /\ IF step < agent.max_steps
       THEN /\ step' = step + 2
            /\ pc' = "plan"
            /\ UNCHANGED demand
       ELSE /\ pc' = "done"
            /\ demand' = FALSE
            /\ UNCHANGED step
    /\ UNCHANGED <<agent, task, buffer, plan_stream, gen_stream, chunk, output,
                   produced, calls, memory, act_log, actVars, libVars>>

\* `for step in 1..=max_steps`: the next iteration, or the end of the stream.
NextStep ==
    /\ demand /\ pc = "loop"
    /\ IF step < agent.max_steps
       THEN /\ step' = step + 1
            /\ pc' = "plan"
            /\ UNCHANGED demand
       ELSE /\ pc' = "done"
            /\ demand' = FALSE
            /\ UNCHANGED step
    /\ UNCHANGED <<agent, task, buffer, plan_stream, gen_stream, chunk, output,
                   produced, calls, memory, act_log, actVars, libVars>>

Call(phase, messages, r) ==
    [step |-> step, phase |-> phase, messages |-> messages, ok |-> r.ok]

Produced(phase, chunks) ==
    [i \in DOMAIN chunks |-> [step |-> step, phase |-> phase, bytes |-> chunks[i]]]

\* self.plan(&task_str, step == 1) with stream_outputs: the stream of the model,
\* or Text("") when the call fails.
PlanStreaming(r) ==
    /\ plan_stream' = IF r.ok THEN [kind |-> "Stream", items |-> r.chunks]
                              ELSE [kind |-> "Text", items |-> << <<>> >>]
    /\ pc' = "plan_next"
    /\ UNCHANGED <<produced, demand>>

\* self.plan(&task_str, step == 1) without stream_outputs: async_generate,
\* which expects the stream and drains it.
PlanOneShot(r) ==
    IF r.ok
    THEN /\ plan_stream' = [kind |-> "Text", items |-> <<async_generate_text(r.chunks)>>]
         /\ produced' = produced \o Produced("plan", r.chunks)
         /\ pc' = "plan_next"
         /\ UNCHANGED demand
    ELSE /\ pc' = "panicked"
         /\ demand' = FALSE
         /\ UNCHANGED <<plan_stream, produced>>

PlanCall ==
    /\ demand /\ pc = "plan"
    /\ \E r \in ModelResults :
         /\ calls' = Append(calls, Call("plan", PlanInputMessages(task, step = 1), r))
         /\ IF agent.stream_outputs THEN PlanStreaming(r) ELSE PlanOneShot(r)
    /\ buffer' = <<>>
    /\ UNCHANGED <<agent, task, step, gen_stream, chunk, output, memory, act_log, actVars, libVars>>

\* A faulty plan loop: when the plan stream ends the iteration ends, without
\* the generation phase
PlanNextSkipsGeneration ==
    /\ demand /\ pc = "plan_next"
    /\ IF plan_stream.items # <<>>
       THEN /\ chunk' = IF plan_stream.kind = "Stream"
                        THEN FromUtf8Lossy(Head(plan_stream.items))
                        ELSE Head(plan_stream.items)
            /\ produced' = IF plan_stream.kind = "Stream"
                           THEN produced \o Produced("plan", <<Head(plan_stream.items)>>)
                           ELSE produced
            /\ plan_stream' = [plan_stream EXCEPT !.items = Tail(@)]
            /\ buffer' = buffer \o chunk'
            /\ pc' = "plan_yield"
       ELSE /\ pc' = "loop"
            /\ UNCHANGED <<chunk, produced, plan_stream, buffer>>
    /\ UNCHANGED <<agent, task, demand, step, gen_stream, output, calls, memory, act_log, actVars, libVars>>

\* `while let Some(chunk) = plan_stream.next().await { buffer.push_str(&chunk);`
PlanNext ==
    /\ demand /\ pc = "plan_next"
    /\ IF plan_stream.items # <<>>
       THEN /\ chunk' = IF plan_stream.kind = "Stream"
                        THEN FromUtf8Lossy(Head(plan_stream.items))
                        ELSE Head(plan_stream.items)
            /\ produced' = IF plan_stream.kind = "Stream"
                           THEN produced \o Produced("plan", <<Head(plan_stream.items)>>)
                           ELSE produced
            /\ plan_stream' = [plan_stream EXCEPT !.items = Tail(@)]
            /\ buffer' = buffer \o chunk'
            /\ pc' = "plan_yield"
       ELSE /\ pc' = "gen"
            /\ UNCHANGED <<chunk, produced, plan_stream, buffer>>
    /\ UNCHANGED <<agent, task, demand, step, gen_stream, output, calls, memory, act_log, actVars, libVars>>

Yielded(phase, text) == [step |-> step, phase |-> phase, text |-> text]

\* A faulty yield: the chunk is put in front of what was delivered
PlanYieldReordered ==
    /\ demand /\ pc = "plan_yield"
    /\ output' = <<Yielded("plan", chunk)>> \o output
    /\ demand' = FALSE
    /\ pc' = "plan_next"
    /\ UNCHANGED <<agent, task, step, buffer, plan_stream, gen_stream, chunk,
                   produced, calls, memory, act_log, actVars, libVars>>

\* `yield chunk;` in the plan loop
PlanYield ==
    /\ demand /\ pc = "plan_yield"
    /\ output' = Append(output, Yielded("plan", chunk))
    /\ demand' = FALSE
    /\ pc' = "plan_next"
    /\ UNCHANGED <<agent, task, step, buffer, plan_stream, gen_stream, chunk,
                   produced, calls, memory, act_log, actVars, libVars>>

\* The generation call with stream_outputs
GenStreaming(r) ==
    IF r.ok
    THEN /\ gen_stream' = [kind |-> "Stream", items |-> r.chunks]
         /\ pc' = "gen_next"
         /\ UNCHANGED <<chunk, produced, demand>>
    ELSE /\ chunk' = <<>>
         /\ pc' = "gen_yield_last"
         /\ UNCHANGED <<gen_stream, produced, demand>>

\* The generation call without stream_outputs: model.async_generate(messages)
GenOneShot(r) ==
    IF r.ok
    THEN /\ chunk' = async_generate_text(r.chunks)
         /\ produced' = produced \o Produced("gen", r.chunks)
         /\ pc' = "gen_yield_last"
         /\ UNCHANGED <<gen_stream, demand>>
    ELSE /\ pc' = "panicked"
         /\ demand' = FALSE
         /\ UNCHANGED <<gen_stream, chunk, produced>>

GenCall ==
    /\ demand /\ pc = "gen"
    /\ \E r \in ModelResults :
         /\ calls' = Append(calls, Call("gen", GenMessages(buffer, task), r))
         /\ IF agent.stream_outputs THEN GenStreaming(r) ELSE GenOneShot(r)
    /\ UNCHANGED <<agent, task, step, buffer, plan_stream, output, memory, act_log, actVars, libVars>>

\* `while let Some(res) = gen_stream.next().await {`
GenNext ==
    /\ demand /\ pc = "gen_next"
    /\ IF gen_stream.items # <<>>
       THEN /\ chunk' = FromUtf8Lossy(Head(gen_stream.items))
            /\ produced' = produced \o Produced("gen", <<Head(gen_stream.items)>>)
            /\ gen_stream' = [gen_stream EXCEPT !.items = Tail(@)]
            /\ pc' = "gen_yield"
       ELSE /\ pc' = "loop"
            /\ UNCHANGED <<chunk, produced, gen_stream>>
    /\ UNCHANGED <<agent, task, demand, step, buffer, plan_stream, output, calls,
                   memory, act_log, actVars, libVars>>

\* A faulty yield: the chunk is delivered and the loop runs on without suspending
GenYieldNoSuspend ==
    /\ demand /\ pc = "gen_yield"
    /\ output' = Append(output, Yielded("gen", chunk))
    /\ pc' = "gen_next"
    /\ UNCHANGED <<agent, task, demand, step, buffer, plan_stream, gen_stream, chunk,
                   produced, calls, memory, act_log, actVars, libVars>>

\* `yield chunk;` in the generation loop
GenYield ==
    /\ demand /\ pc = "gen_yield"
    /\ output' = Append(output, Yielded("gen", chunk))
    /\ demand' = FALSE
    /\ pc' = "gen_next"
    /\ UNCHANGED <<agent, task, step, buffer, plan_stream, gen_stream, chunk,
                   produced, calls, memory, act_log, actVars, libVars>>

\* `yield String::new();` after a failed call, `yield text;` after async_generate
GenYieldLast ==
    /\ demand /\ pc = "gen_yield_last"
    /\ output' = Append(output, Yielded("gen", chunk))
    /\ demand' = FALSE
    /\ pc' = "loop"
    /\ UNCHANGED <<agent, task, step, buffer, plan_stream, gen_stream, chunk,
                   produced, calls, memory, act_log, actVars, libVars>>

Next ==
    \/ Pull
    \/ NextStep
    \/ PlanCall
    \/ PlanNext
    \/ PlanYield
    \/ GenCall
    \/ GenNext
    \/ GenYield
    \/ GenYieldLast

Spec == Init /\ [][Next]_vars

\* The caller keeps pulling and the runtime keeps running the generator.
FairSpec == Init /\ [][Next]_vars /\ WF_vars(Next)


(***************************************************************************)
(* The action layer called directly: prepare_inputs and act                *)
(***************************************************************************)
MaxParams == 2
MaxInputs == 2

SeqsUpTo(S, n) == UNION { [1..m -> S] : m \in 0..n }

LowerString == <<"s", "t", "r", "i", "n", "g">>
IntType == <<"I", "n", "t">>

ParameterNames == {"query", "limit"}
Parameters == { Parameter(n, d, "") : n \in ParameterNames, d \in {String, IntType} }
ActionInputs ==
    { ActionInput(k, v, d) : k \in ParameterNames, v \in {"a", "b"},
                             d \in {String, LowerString, IntType} }

\* An implementor of the Action trait with any declared parameters
CustomAction(ps) ==
    [name |-> "CustomAction", description |-> "", parameters |-> ps, output_type |-> String]

Actions ==
    {DuckDuckGoSearchAction, NaverNewsSearchAction}
        \cup { CustomAction(ps) : ps \in SeqsUpTo(Parameters, MaxParams) }

\* What Command::new("duckduckgo").arg(..).output() ends with
ProcessOutcomes ==
    { [started |-> FALSE, stdout |-> <<>>],
      [started |-> TRUE, stdout |-> <<"r", "e", "s">>],
      [started |-> TRUE, stdout |-> <<"r", BadByte>>] }

\* format!("{}", n) of a small count
Decimal(n) == <<"0", "1", "2", "3", "4", "5", "6", "7", "8", "9">>[n + 1]

NoResult == [kind |-> "None"]
Observation(result) == [kind |-> "Observation", result |-> result]
Panic(message) == [kind |-> "Panic", message |-> message]

RunIdle ==
    /\ agent = AgentNew(0, <<DuckDuckGoSearchAction, NaverNewsSearchAction>>, TRUE)
    /\ task \in Tasks
    /\ pc = "loop"
    /\ demand = FALSE
    /\ step = 0
    /\ buffer = <<>>
    /\ plan_stream = NoStream
    /\ gen_stream = NoStream
    /\ chunk = <<>>
    /\ output = <<>>
    /\ produced = <<>>
    /\ calls = <<>>
    /\ memory = AgentMemoryNew(PromptTemplates.system_prompt)
    /\ act_log = <<>>

ActInit ==
    /\ RunIdle
    /\ LibIdle
    /\ the_action \in Actions
    /\ inputs \in SeqsUpTo(ActionInputs, MaxInputs)
    /\ matched = <<>>
    /\ act_pc = "ready"
    /\ act_result = NoResult

\* a caller calls the_action.prepare_inputs(inputs)
PrepareInputs ==
    /\ act_pc = "ready"
    /\ matched' = prepare_inputs(the_action, inputs)
    /\ act_pc' = "prepared"
    /\ UNCHANGED <<the_action, inputs, act_result, act_log, runVars, libVars>>

ActCall == [action |-> the_action.name, inputs |-> inputs]

\* NaverNewsSearchAction::act
NaverAct ==
    /\ act_pc = "ready"
    /\ the_action = NaverNewsSearchAction
    /\ matched' = prepare_inputs(the_action, inputs)
    /\ act_result' = Observation(<<"Matched ", Decimal(Cardinality(DOMAIN matched')), " input(s)">>)
    /\ act_log' = Append(act_log, ActCall)
    /\ act_pc' = "acted"
    /\ UNCHANGED <<the_action, inputs, runVars, libVars>>

\* DuckDuckGoSearchAction::act
DuckDuckGoAct ==
    /\ act_pc = "ready"
    /\ the_action = DuckDuckGoSearchAction
    /\ matched' = prepare_inputs(the_action, inputs)
    /\ IF "query" \notin DOMAIN matched'
       THEN act_result' = Panic("called Option::unwrap() on a None value")
       ELSE \E proc \in ProcessOutcomes :
              act_result' = IF proc.started
                            THEN Observation(FromUtf8Lossy(proc.stdout))
                            ELSE Panic("Failed to execute command")
    /\ act_log' = Append(act_log, ActCall)
    /\ act_pc' = "acted"
    /\ UNCHANGED <<the_action, inputs, runVars, libVars>>

\* the orders in which a set of keys can be enumerated
Orderings(S) ==
    { f \in [1..Cardinality(S) -> S] : \A i, j \in 1..Cardinality(S) : i # j => f[i] # f[j] }

\* Entries(keys): the keys of a map in the order an iteration visited them
Entries(keys) == [kind |-> "Entries", keys |-> keys]

\* a caller iterates the HashMap prepare_inputs returned: a HashMap keeps no
\* insertion order, its iteration visits the entries in an order of its own
IterateMatched ==
    /\ act_pc = "prepared"
    /\ \E order \in Orderings(DOMAIN matched) : act_result' = Entries(order)
    /\ act_pc' = "iterated"
    /\ UNCHANGED <<the_action, inputs, matched, act_log, runVars, libVars>>

ActNext ==
    \/ PrepareInputs
    \/ NaverAct
    \/ DuckDuckGoAct
    \/ IterateMatched

SpecAct == ActInit /\ [][ActNext]_vars


(***************************************************************************)
(* Properties of prepare_inputs and act                                    *)
(***************************************************************************)
CasePairs == { {"S", "s"}, {"T", "t"}, {"R", "r"}, {"I", "i"}, {"N", "n"}, {"G", "g"} }

\* a and b are the same text up to the case of ASCII letters
SameIgnoringCase(a, b) ==
    /\ Len(a) = Len(b)
    /\ \A i \in 1..Len(a) : a[i] = b[i] \/ {a[i], b[i]} \in CasePairs

\* input is a match of the declared parameter p
IsMatchOf(p, input) == input.key = p.name /\ SameIgnoringCase(input.dtype, p.dtype)

DeclaredIndices == DOMAIN the_action.parameters
Declared(j) == the_action.parameters[j]
HasMatch(j) == \E i \in DOMAIN inputs : IsMatchOf(Declared(j), inputs[i])

\* inputs[i] is the first input in the order of I that matches parameter j
IsFirstMatchOf(j, i) ==
    /\ IsMatchOf(Declared(j), inputs[i])
    /\ \A i2 \in 1..(i - 1) : ~IsMatchOf(Declared(j), inputs[i2])

Prepared == act_pc \in {"prepared", "acted"}

\* The keys of the result: p.name for the declared parameters p that some input matches
C3_KeysExactlyMatched ==
    \A k \in ParameterNames \cup DOMAIN matched :
        (k \in DOMAIN matched) <=> (\E j \in DeclaredIndices : Declared(j).name = k /\ HasMatch(j))

C4_UnmatchedInputsDropped ==
    Prepared =>
        /\ act_pc = "prepared" => act_result = NoResult
        /\ DOMAIN matched \subseteq { Declared(j).name : j \in DeclaredIndices }
        /\ \A i \in DOMAIN inputs :
             (~\E j \in DeclaredIndices : IsMatchOf(Declared(j), inputs[i]))
                 => \A k \in DOMAIN matched : matched[k] # inputs[i]

\* prepare_inputs has acted on an unknown key and on a known key of another dtype
C4_Witness ==
    /\ act_pc = "prepared"
    /\ the_action = DuckDuckGoSearchAction
    /\ Len(inputs) = 2
    /\ inputs[1].key = "limit"
    /\ inputs[2].key = "query" /\ inputs[2].dtype = IntType
    /\ DOMAIN matched = {}

\* C10: act returns an Observation or an ActionInvocationError that names the
\* action, whatever the inputs and whether or not the search process starts.
C10_ActNeverAborts ==
    act_pc = "acted" =>
        \/ act_result.kind = "Observation"
        \/ act_result.kind = "ActionInvocationError" /\ act_result.action = the_action.name


(***************************************************************************)
(* Properties of a run                                                     *)
(***************************************************************************)
Phases == {"plan", "gen"}
Iterations == 1..agent.max_steps

IsPrefix(a, b) == Len(a) <= Len(b) /\ SubSeq(b, 1, Len(a)) = a

\* the position of a chunk in the order plan 1, generation 1, plan 2, ...
Rank(e) == 2 * e.step + (IF e.phase = "gen" THEN 1 ELSE 0)

\* the chunks the caller received from the call (k, ph)
OutputTexts(k, ph) ==
    LET sel == SelectSeq(output, LAMBDA e : e.step = k /\ e.phase = ph)
    IN  [i \in DOMAIN sel |-> sel[i].text]

\* the chunks the model produced for the call (k, ph), as text
ProducedTexts(k, ph) ==
    LET sel == SelectSeq(produced, LAMBDA e : e.step = k /\ e.phase = ph)
    IN  [i \in DOMAIN sel |-> FromUtf8Lossy(sel[i].bytes)]

AllOutputText == Flatten([i \in DOMAIN output |-> output[i].text])

CallOk(k, ph) == \E i \in DOMAIN calls : calls[i].step = k /\ calls[i].phase = ph /\ calls[i].ok
CallFailed(k, ph) ==
    \E i \in DOMAIN calls : calls[i].step = k /\ calls[i].phase = ph /\ ~calls[i].ok

\* the loop is past the delivery of the chunks of call (k, ph)
Complete(k, ph) ==
    \/ pc \in {"done", "panicked"}
    \/ k < step
    \/ k = step /\ pc = "loop"
    \/ k = step /\ ph = "plan" /\ pc \in {"gen", "gen_next", "gen_yield", "gen_yield_last"}

PLAN == <<"P", "L", "A", "N">>

\* C1: the output sequence is the plan chunks of iteration k in production
\* order, then the generation chunks of iteration k, then those of k+1; no
\* chunk is reordered, dropped, duplicated or merged with a chunk of another
\* call. With max_steps = 1, plan "PLAN" and generation "4" the output is "PLAN4".
C1_ChunksInProductionOrder ==
    /\ \A i, j \in DOMAIN output : i < j => Rank(output[i]) <= Rank(output[j])
    /\ \A k \in Iterations, ph \in Phases :
         LET P == ProducedTexts(k, ph)
             O == OutputTexts(k, ph)
         IN  /\ IsPrefix(Flatten(O), Flatten(P))
             /\ (agent.stream_outputs /\ CallOk(k, ph)) => IsPrefix(O, P)
             /\ Complete(k, ph) =>
                  /\ Flatten(O) = Flatten(P)
                  /\ (agent.stream_outputs /\ CallOk(k, ph)) => O = P
    /\ ( /\ pc = "done" /\ agent.max_steps = 1
         /\ Flatten(ProducedTexts(1, "plan")) = PLAN
         /\ Flatten(ProducedTexts(1, "gen")) = <<"4">> )
           => AllOutputText = PLAN \o <<"4">>

\* a streaming run of two iterations has ended; its first plan came in two chunks
C1_Witness ==
    /\ pc = "done" /\ agent.stream_outputs /\ agent.max_steps = 2
    /\ [i \in DOMAIN output |-> output[i].text]
         = << <<"P", "L">>, <<"A", "N">>, <<"4">>, <<"P", "L">>, <<"A", "N">>, <<"4">> >>
    /\ AllOutputText = PLAN \o <<"4">> \o PLAN \o <<"4">>

\* some action of Next can be taken: the caller can pull, or the generator
\* is running and stands at one of its steps (the guards of the actions; what
\* follows a guard can always be done)
CanStep ==
    \/ ~demand /\ pc \notin {"done", "panicked"}
    \/ demand /\ pc \in {"loop", "plan", "plan_next", "plan_yield",
                          "gen", "gen_next", "gen_yield", "gen_yield_last"}

\* C2: with finite model streams and a caller that keeps pulling, every run
\* ends its output sequence after at most max_steps iterations; with
\* max_steps = 0 the output is empty and no model call is made.
C2_EveryRunEnds ==
    /\ step <= agent.max_steps
    /\ Len(calls) <= 2 * agent.max_steps
    /\ agent.max_steps = 0 => (output = <<>> /\ calls = <<>>)
    /\ ~CanStep => pc = "done"

\* C5: in both settings of stream_outputs a failed model call is replaced by
\* exactly one empty chunk for that call, and the run does not abort.
C5_FailedCallYieldsOneEmptyChunk ==
    /\ pc # "panicked"
    /\ \A k \in Iterations, ph \in Phases :
         (CallFailed(k, ph) /\ Complete(k, ph)) => OutputTexts(k, ph) = << <<>> >>

\* what a step of the memory log records of the run
StepSummary(s) ==
    CASE s.kind = "Task" -> <<"Task", s.task>>
      [] s.kind = "Planning" -> <<"Planning", s.plan>>
      [] s.kind = "Action" -> <<"Action", s.model_output>>

RECURSIVE ExpectedSteps(_)
ExpectedSteps(n) ==
    IF n = 0 THEN << <<"Task", task>> >>
    ELSE ExpectedSteps(n - 1)
           \o << <<"Planning", Flatten(ProducedTexts(n, "plan"))>>,
                 <<"Action", Flatten(ProducedTexts(n, "gen"))>> >>

\* C6: after a completed run of n iterations over a model that never fails,
\* memory holds the system prompt, the TaskStep, and per iteration a
\* PlanningStep with the plan and an ActionStep with the model output.
C6_MemoryRecordsRun ==
    (pc = "done" /\ \A i \in DOMAIN calls : calls[i].ok) =>
        /\ memory.system_prompt.system_prompt = agent.prompt.system_prompt
        /\ [i \in DOMAIN memory.steps |-> StepSummary(memory.steps[i])]
             = ExpectedSteps(agent.max_steps)

\* the pieces of a model output that encode one tool call each, and the action
\* each names
ToolCallPieces == {"call:DuckDuckGoSearchAction", "call:NoSuchAction"}
ToolCallName(piece) ==
    IF piece = "call:DuckDuckGoSearchAction" THEN "DuckDuckGoSearchAction" ELSE "NoSuchAction"
EncodedToolCalls(text) ==
    LET sel == SelectSeq(text, LAMBDA piece : piece \in ToolCallPieces)
    IN  [i \in DOMAIN sel |-> ToolCallName(sel[i])]

RECURSIVE ToolCallsUpTo(_)
\* the tool calls encoded in the generated outputs of iterations 1..n, in order
ToolCallsUpTo(n) ==
    IF n = 0 THEN <<>>
    ELSE ToolCallsUpTo(n - 1) \o EncodedToolCalls(Flatten(ProducedTexts(n, "gen")))

CompletedIterations == IF pc \in {"loop", "done"} THEN step ELSE IF step = 0 THEN 0 ELSE step - 1

\* C9: every tool call encoded in the generated output of a step is attempted,
\* in order, and a failing one never ends the run.
C9_ToolCallsAttempted ==
    [i \in DOMAIN act_log |-> act_log[i].action]
      = ToolCallsUpTo(CompletedIterations)


(***************************************************************************)
(* Facts about what a run never does                                       *)
(***************************************************************************)
\* interrupt_switch stays as Agent::new set it
InterruptNeverSet == ~agent.interrupt_switch

\* a run records no step and invokes no action
NoStepRecordedNoActionInvoked == memory.steps = <<>> /\ act_log = <<>>

\* a run that does not panic makes both calls of each of its max_steps iterations
AllIterationsRun == pc = "done" => Len(calls) = 2 * agent.max_steps


(***************************************************************************)
(* The memory log (memory.rs): values, options, Timing                     *)
(***************************************************************************)
\* Option<T>
None == [some |-> FALSE]
Some(x) == [some |-> TRUE, v |-> x]

\* serde_json::Value
ValueNull == [json |-> "Null"]
ValueBool(b) == [json |-> "Bool", v |-> b]
ValueNumber(n) == [json |-> "Number", v |-> n]
ValueString(s) == [json |-> "String", v |-> s]
ValueArray(a) == [json |-> "Array", v |-> a]
ValueObject(o) == [json |-> "Object", v |-> o]

\* Option::map_or(default, f), where mapped is f of the value inside
map_or(opt, default, mapped) == IF opt.some THEN mapped ELSE default

\* i32
MaxI32 == 2147483647
MinI32 == -MaxI32 - 1

\* a - b is outside of i32
SubOverflows(a, b) == (b > 0 /\ a < MinI32 + b) \/ (b < 0 /\ a > MaxI32 + b)

\* a - b modulo 2^32, as an i32 (computed without leaving the i32 range)
wrapping_sub(a, b) ==
    IF b > 0 /\ a < MinI32 + b THEN (a - MinI32) + (MaxI32 - b) + 1
    ELSE IF b < 0 /\ a > MaxI32 + b THEN (a - MaxI32) + (MinI32 - b) - 1
    ELSE a - b

Returned(value) == [kind |-> "Ok", value |-> value]

\* Timing { start_time, end_time }
Timing(start_time, end_time) == [start_time |-> start_time, end_time |-> end_time]

\* A faulty duration: start_time - end_time
TimingDurationSwapped(t, overflow_checks) ==
    IF SubOverflows(t.start_time, t.end_time) /\ overflow_checks
    THEN Panic("attempt to subtract with overflow")
    ELSE Returned(wrapping_sub(t.start_time, t.end_time))

\* Timing::duration: self.end_time - self.start_time. On overflow a build with
\* overflow checks (debug) panics, a build without them (release) wraps.
TimingDuration(t, overflow_checks) ==
    IF SubOverflows(t.end_time, t.start_time) /\ overflow_checks
    THEN Panic("attempt to subtract with overflow")
    ELSE Returned(wrapping_sub(t.end_time, t.start_time))

\* <Timing as ToolBase>::dict, where duration() returns
TimingDict(t) ==
    [start_time |-> ValueNumber(t.start_time),
     end_time |-> ValueNumber(t.end_time),
     duration |-> ValueNumber(TimingDuration(t, FALSE).value)]

\* serde_json::to_value of a chat message
to_value(msg) == ValueObject([role |-> ValueString(msg.role), content |-> ValueString(msg.content)])

\* ToolCall { id, name, arguments } and its dict
ToolCall(id, name, arguments) == [id |-> id, name |-> name, arguments |-> arguments]
ToolCallDict(call) ==
    [id |-> ValueString(call.id),
     type |-> ValueString(<<"function">>),
     function |-> ValueObject([name |-> ValueString(call.name),
                               arguments |-> ValueObject(call.arguments)])]

\* TokenUsage { prompt_tokens, completion_tokens, total_tokens } and its map
TokenUsage(prompt_tokens, completion_tokens) ==
    [prompt_tokens |-> prompt_tokens, completion_tokens |-> completion_tokens,
     total_tokens |-> prompt_tokens + completion_tokens]
UsageMap(usage) ==
    ValueObject([prompt_tokens |-> ValueNumber(usage.prompt_tokens),
                 completion_tokens |-> ValueNumber(usage.completion_tokens),
                 total_tokens |-> ValueNumber(usage.total_tokens)])

MessagesArray(msgs) == ValueArray([i \in DOMAIN msgs |-> to_value(msgs[i])])
CallsArray(calls_) == ValueArray([i \in DOMAIN calls_ |-> ValueObject(ToolCallDict(calls_[i]))])
StringsArray(images) == ValueArray([i \in DOMAIN images |-> ValueString(images[i])])
Identity(v) == v

(***************************************************************************)
(* The steps of the log and their dict()                                   *)
(***************************************************************************)
\* Step::Task(TaskStep { task, task_images })
TaskStep(task_, task_images) ==
    [kind |-> "Task", task |-> task_, task_images |-> task_images]

\* Step::Planning(PlanningStep { .. })
PlanningStep(model_input_messages, model_output_message, plan, timing_, token_usage) ==
    [kind |-> "Planning", model_input_messages |-> model_input_messages,
     model_output_message |-> model_output_message, plan |-> plan,
     timing |-> timing_, token_usage |-> token_usage]

\* <TaskStep as MemoryStep>::dict
TaskStepDict(s) ==
    [task |-> ValueString(s.task),
     task_images |-> map_or(s.task_images, ValueNull, StringsArray(s.task_images.v))]

\* <PlanningStep as MemoryStep>::dict
PlanningStepDict(s) ==
    [model_input_messages |-> MessagesArray(s.model_input_messages),
     model_output_message |-> map_or(s.model_output_message, ValueNull, to_value(s.model_output_message.v)),
     plan |-> ValueString(s.plan),
     timing |-> ValueObject(TimingDict(s.timing)),
     token_usage |-> map_or(s.token_usage, ValueNull, UsageMap(s.token_usage.v))]

\* A faulty dict: a key is written only when its field is set
ActionStepDictOmittingNone(s) ==
    LET full == [step_number |-> ValueNumber(s.step_number),
                 timing |-> ValueObject(TimingDict(s.timing)),
                 model_input_messages |-> map_or(s.model_input_messages, ValueNull, MessagesArray(s.model_input_messages.v)),
                 tool_calls |-> map_or(s.tool_calls, ValueNull, CallsArray(s.tool_calls.v)),
                 error |-> map_or(s.error, ValueNull, ValueString(s.error.v)),
                 model_output_message |-> map_or(s.model_output_message, ValueNull, to_value(s.model_output_message.v)),
                 model_output |-> map_or(s.model_output, ValueNull, ValueString(s.model_output.v)),
                 code_action |-> map_or(s.code_action, ValueNull, ValueString(s.code_action.v)),
                 observations |-> map_or(s.observations, ValueNull, ValueString(s.observations.v)),
                 observations_images |-> map_or(s.observations_images, ValueNull, StringsArray(s.observations_images.v)),
                 action_output |-> map_or(s.action_output, ValueNull, Identity(s.action_output.v)),
                 token_usage |-> map_or(s.token_usage, ValueNull, UsageMap(s.token_usage.v)),
                 is_final_answer |-> ValueBool(s.is_final_answer)]
    IN  [k \in {key \in DOMAIN full : full[key] # ValueNull} |-> full[k]]

\* <ActionStep as MemoryStep>::dict
ActionStepDict(s) ==
    [step_number |-> ValueNumber(s.step_number),
     timing |-> ValueObject(TimingDict(s.timing)),
     model_input_messages |-> map_or(s.model_input_messages, ValueNull, MessagesArray(s.model_input_messages.v)),
     tool_calls |-> map_or(s.tool_calls, ValueNull, CallsArray(s.tool_calls.v)),
     error |-> map_or(s.error, ValueNull, ValueString(s.error.v)),
     model_output_message |-> map_or(s.model_output_message, ValueNull, to_value(s.model_output_message.v)),
     model_output |-> map_or(s.model_output, ValueNull, ValueString(s.model_output.v)),
     code_action |-> map_or(s.code_action, ValueNull, ValueString(s.code_action.v)),
     observations |-> map_or(s.observations, ValueNull, ValueString(s.observations.v)),
     observations_images |-> map_or(s.observations_images, ValueNull, StringsArray(s.observations_images.v)),
     action_output |-> map_or(s.action_output, ValueNull, Identity(s.action_output.v)),
     token_usage |-> map_or(s.token_usage, ValueNull, UsageMap(s.token_usage.v)),
     is_final_answer |-> ValueBool(s.is_final_answer)]

\* `match step { Step::Task(ts) => ts.dict(), .. }`
StepDict(s) ==
    CASE s.kind = "Task" -> TaskStepDict(s)
      [] s.kind = "Action" -> ActionStepDict(s)
      [] s.kind = "Planning" -> PlanningStepDict(s)

\* dict() of the step calls timing.duration(), which panics on overflow in a
\* build with overflow checks
DictPanics(s, overflow_checks) ==
    /\ s.kind \in {"Action", "Planning"}
    /\ TimingDuration(s.timing, overflow_checks).kind = "Panic"

\* HashMap::remove(key)
Remove(data, key) == [k \in DOMAIN data \ {key} |-> data[k]]

(***************************************************************************)
(* AgentMemory: reset, get_succinct_steps, get_full_steps, return_full_code*)
(***************************************************************************)
\* A faulty reset: the last step is removed
reset_pop(m) ==
    [m EXCEPT !.steps = IF @ = <<>> THEN <<>> ELSE SubSeq(@, 1, Len(@) - 1)]

\* AgentMemory::reset: self.steps.clear()
reset(m) == [m EXCEPT !.steps = <<>>]

\* AgentMemory::get_succinct_steps
get_succinct_steps(m, overflow_checks) ==
    IF \E i \in DOMAIN m.steps : DictPanics(m.steps[i], overflow_checks)
    THEN Panic("attempt to subtract with overflow")
    ELSE Returned([i \in DOMAIN m.steps |->
                     ValueObject(Remove(StepDict(m.steps[i]), "model_input_messages"))])

\* AgentMemory::get_full_steps
get_full_steps(m, overflow_checks) ==
    IF m.steps = <<>> THEN Returned(<<>>)
    ELSE IF \E i \in DOMAIN m.steps : DictPanics(m.steps[i], overflow_checks)
    THEN Panic("attempt to subtract with overflow")
    ELSE Returned([i \in DOMAIN m.steps |-> ValueObject(StepDict(m.steps[i]))])

RECURSIVE CodeActionsNoneAsEmpty(_)
\* A faulty filter_map: an ActionStep without code_action gives an empty string
CodeActionsNoneAsEmpty(steps) ==
    IF steps = <<>> THEN <<>>
    ELSE (IF Head(steps).kind = "Action"
          THEN (IF Head(steps).code_action.some THEN <<Head(steps).code_action.v>> ELSE << <<>> >>)
          ELSE <<>>)
           \o CodeActionsNoneAsEmpty(Tail(steps))

RECURSIVE CodeActions(_)
\* filter_map over the steps: the code_action of the ActionSteps that have one
CodeActions(steps) ==
    IF steps = <<>> THEN <<>>
    ELSE (IF Head(steps).kind = "Action" /\ Head(steps).code_action.some
          THEN <<Head(steps).code_action.v>>
          ELSE <<>>)
           \o CodeActions(Tail(steps))

\* AgentMemory::return_full_code
return_full_code(m) == Join(CodeActions(m.steps), <<"\n\n">>)


(***************************************************************************)
(* The memory log in use: steps are pushed, the log is reset and exported  *)
(***************************************************************************)
MaxMemSteps == 2

UserMessage == Message("user", <<"What is 2+2?">>)
AssistantMessage == Message("assistant", <<"4">>)

\* start_time <= end_time, and a Timing whose difference is outside of i32
SomeTiming == Timing(1, 3)
OverflowTiming == Timing(-1, MaxI32)

TaskSteps == { TaskStep(<<"What is 2+2?">>, images) : images \in {None, Some(<< <<"img">> >>)} }

PlanningSteps ==
    { PlanningStep(msgs, IF set THEN Some(AssistantMessage) ELSE None, PLAN, SomeTiming,
                   IF set THEN Some(TokenUsage(1, 2)) ELSE None) :
        msgs \in {<<>>, <<UserMessage>>}, set \in BOOLEAN }
      \cup { PlanningStep(<<UserMessage>>, None, PLAN, OverflowTiming, None) }

ActionOptionalFields ==
    {"model_input_messages", "tool_calls", "error", "model_output_message", "model_output",
     "code_action", "observations", "observations_images", "action_output", "token_usage"}

\* An ActionStep whose optional fields in `set` are Some and the others None
ActionStep(set, code, timing_) ==
    [kind |-> "Action",
     step_number |-> 1,
     timing |-> timing_,
     model_input_messages |->
         IF "model_input_messages" \in set THEN Some(<<UserMessage>>) ELSE None,
     tool_calls |->
         IF "tool_calls" \in set
         THEN Some(<<ToolCall(<<"call_1">>, <<"DuckDuckGoSearchAction">>,
                              [query |-> ValueString(<<"2+2">>)])>>)
         ELSE None,
     error |-> IF "error" \in set THEN Some(<<"failed">>) ELSE None,
     model_output_message |->
         IF "model_output_message" \in set THEN Some(AssistantMessage) ELSE None,
     model_output |-> IF "model_output" \in set THEN Some(<<"4">>) ELSE None,
     code_action |-> IF "code_action" \in set THEN Some(code) ELSE None,
     observations |-> IF "observations" \in set THEN Some(<<"seen">>) ELSE None,
     observations_images |->
         IF "observations_images" \in set THEN Some(<< <<"img">> >>) ELSE None,
     action_output |-> IF "action_output" \in set THEN Some(ValueString(<<"4">>)) ELSE None,
     token_usage |-> IF "token_usage" \in set THEN Some(TokenUsage(1, 2)) ELSE None,
     is_final_answer |-> FALSE]

ActionSteps ==
    { ActionStep(set, <<"a">>, SomeTiming) :
        set \in {{}, ActionOptionalFields} \cup { {f} : f \in ActionOptionalFields } }
      \cup { ActionStep({"code_action"}, <<"b">>, SomeTiming),
             ActionStep({}, <<"a">>, OverflowTiming) }

\* [Task, Action(code = "a"), Planning, Action(code = None), Action(code = "b")]
ExampleSteps ==
    << TaskStep(<<"What is 2+2?">>, None),
       ActionStep({"code_action"}, <<"a">>, SomeTiming),
       PlanningStep(<<UserMessage>>, None, PLAN, SomeTiming, None),
       ActionStep({}, <<"a">>, SomeTiming),
       ActionStep({"code_action"}, <<"b">>, SomeTiming) >>

Unit == [kind |-> "Unit"]

\* the last operation, its result, whether the log was reset since the last
\* push, and how many steps the last reset cleared
MemCall(op, result, after_reset, cleared) ==
    [op |-> op, result |-> result, after_reset |-> after_reset, cleared |-> cleared]

SystemPrompts == { PromptTemplates.system_prompt, <<>> }

\* An AgentMemory is constructed empty, or with the steps of the example, and
\* the agent of the other specifications is not run.
SpecMemInit ==
    /\ agent = AgentNew(0, <<DuckDuckGoSearchAction, NaverNewsSearchAction>>, TRUE)
    /\ task \in Tasks
    /\ pc = "loop" /\ demand = FALSE /\ step = 0 /\ buffer = <<>>
    /\ plan_stream = NoStream /\ gen_stream = NoStream
    /\ chunk = <<>> /\ output = <<>> /\ produced = <<>> /\ calls = <<>>
    /\ act_log = <<>>
    /\ ActIdle /\ RegIdle /\ TimingIdle /\ ConcIdle /\ PromptIdle /\ RenderIdle
    /\ \E sp \in SystemPrompts :
         memory \in { AgentMemoryNew(sp), [AgentMemoryNew(sp) EXCEPT !.steps = ExampleSteps] }
    /\ mem_call = MemCall("new", Unit, FALSE, 0)

memFrame == <<agent, task, pc, demand, step, buffer, plan_stream, gen_stream, chunk,
              output, produced, calls, act_log, actVars,
              registry, registered, notified, timing, duration, runs, shared_model,
              prompt_call, rendering>>

\* memory.steps.push(Step::Task(..))
PushTask ==
    /\ Len(memory.steps) < MaxMemSteps
    /\ \E s \in TaskSteps : memory' = [memory EXCEPT !.steps = Append(@, s)]
    /\ mem_call' = MemCall("push", Unit, FALSE, 0)
    /\ UNCHANGED memFrame

\* memory.steps.push(Step::Planning(..))
PushPlanning ==
    /\ Len(memory.steps) < MaxMemSteps
    /\ \E s \in PlanningSteps : memory' = [memory EXCEPT !.steps = Append(@, s)]
    /\ mem_call' = MemCall("push", Unit, FALSE, 0)
    /\ UNCHANGED memFrame

\* memory.steps.push(Step::Action(..))
PushAction ==
    /\ Len(memory.steps) < MaxMemSteps
    /\ \E s \in ActionSteps : memory' = [memory EXCEPT !.steps = Append(@, s)]
    /\ mem_call' = MemCall("push", Unit, FALSE, 0)
    /\ UNCHANGED memFrame

\* memory.reset()
Reset ==
    /\ memory' = reset(memory)
    /\ mem_call' = MemCall("reset", Unit, TRUE, Len(memory.steps))
    /\ UNCHANGED memFrame

\* memory.get_succinct_steps(), in a build with or without overflow checks
GetSuccinctSteps ==
    /\ \E overflow_checks \in BOOLEAN :
         mem_call' = MemCall("get_succinct_steps",
                             get_succinct_steps(memory, overflow_checks), mem_call.after_reset,
                             mem_call.cleared)
    /\ UNCHANGED <<memory, memFrame>>

\* memory.get_full_steps(), in a build with or without overflow checks
GetFullSteps ==
    /\ \E overflow_checks \in BOOLEAN :
         mem_call' = MemCall("get_full_steps",
                             get_full_steps(memory, overflow_checks), mem_call.after_reset,
                             mem_call.cleared)
    /\ UNCHANGED <<memory, memFrame>>

\* memory.return_full_code()
ReturnFullCode ==
    /\ mem_call' = MemCall("return_full_code", Returned(return_full_code(memory)),
                           mem_call.after_reset, mem_call.cleared)
    /\ UNCHANGED <<memory, memFrame>>

MemNext ==
    \/ PushTask
    \/ PushPlanning
    \/ PushAction
    \/ Reset
    \/ GetSuccinctSteps
    \/ GetFullSteps
    \/ ReturnFullCode

SpecMem == SpecMemInit /\ [][MemNext]_vars


(***************************************************************************)
(* Properties of the memory log                                            *)
(***************************************************************************)
\* the fields of each kind of step (memory.rs, the struct definitions)
StepFields(kind) ==
    CASE kind = "Task" -> {"task", "task_images"}
      [] kind = "Planning" -> {"model_input_messages", "model_output_message", "plan",
                               "timing", "token_usage"}
      [] kind = "Action" -> {"step_number", "timing", "is_final_answer"} \cup ActionOptionalFields

OptionalFields(kind) ==
    CASE kind = "Task" -> {"task_images"}
      [] kind = "Planning" -> {"model_output_message", "token_usage"}
      [] kind = "Action" -> ActionOptionalFields

MemResult == mem_call.result
MemSteps == memory.steps

\* the difference end_time - start_time of step i is an i32
NoTimingOverflows ==
    \A i \in DOMAIN MemSteps :
        MemSteps[i].kind \in {"Action", "Planning"}
            => ~SubOverflows(MemSteps[i].timing.end_time, MemSteps[i].timing.start_time)

\* what get_full_steps returns for the log as it is (memory is not changed by an export)
FullRecords == get_full_steps(memory, FALSE).value

\* the result is one record per step, none has the key model_input_messages,
\* and each is the full record at its position less that key
SuccinctRecordsAreFullLessInputMessages ==
    /\ MemResult.kind = "Ok"
    /\ Len(MemResult.value) = Len(MemSteps)
    /\ \A i \in DOMAIN MemSteps :
         LET succinct == MemResult.value[i].v
             full == FullRecords[i].v
         IN  /\ MemResult.value[i].json = "Object"
             /\ "model_input_messages" \notin DOMAIN succinct
             /\ DOMAIN succinct = DOMAIN full \ {"model_input_messages"}
             /\ \A k \in DOMAIN succinct : succinct[k] = full[k]

\* C11: for every memory, get_succinct_steps returns one record per step in
\* step order, no record contains the key model_input_messages, and each record
\* equals the record of get_full_steps at the same position with exactly that
\* key removed.
C11_SuccinctStepsDropInputMessages ==
    mem_call.op = "get_succinct_steps" => SuccinctRecordsAreFullLessInputMessages

\* the result is empty for an empty log and otherwise the full record of each
\* step, in order; the records of ActionSteps and PlanningSteps have the key
\* model_input_messages
FullRecordsOfEveryStep ==
    /\ MemResult.kind = "Ok"
    /\ MemSteps = <<>> => MemResult.value = <<>>
    /\ Len(MemResult.value) = Len(MemSteps)
    /\ \A i \in DOMAIN MemSteps :
         LET s == MemSteps[i]
             rec == MemResult.value[i].v
         IN  /\ MemResult.value[i].json = "Object"
             /\ DOMAIN rec = StepFields(s.kind)
             /\ s.kind = "Task" => rec.task = ValueString(s.task)
             /\ s.kind = "Planning" =>
                  /\ rec.plan = ValueString(s.plan)
                  /\ rec.model_input_messages.json = "Array"
                  /\ Len(rec.model_input_messages.v) = Len(s.model_input_messages)
             /\ s.kind = "Action" =>
                  /\ rec.step_number = ValueNumber(s.step_number)
                  /\ rec.is_final_answer = ValueBool(s.is_final_answer)
                  /\ s.code_action.some => rec.code_action = ValueString(s.code_action.v)
                  /\ s.model_input_messages.some => rec.model_input_messages.json = "Array"
             /\ s.kind \in {"Action", "Planning"} =>
                  /\ "model_input_messages" \in DOMAIN rec
                  /\ rec.timing.v.start_time = ValueNumber(s.timing.start_time)
                  /\ rec.timing.v.end_time = ValueNumber(s.timing.end_time)

\* C12: for every memory, get_full_steps returns an empty sequence when the log
\* is empty and otherwise a sequence as long as the log whose i-th record is the
\* full record of the i-th step; the record of every ActionStep and every
\* PlanningStep contains the key model_input_messages.
C12_FullStepsOnePerStep ==
    mem_call.op = "get_full_steps" => FullRecordsOfEveryStep

\* Both exports are as C11 and C12 say when no step has a Timing whose
\* difference overflows
ExportsAsStatedWithoutOverflow ==
    NoTimingOverflows =>
        /\ C11_SuccinctStepsDropInputMessages
        /\ C12_FullStepsOnePerStep

\* An export panics only in a build with overflow checks, on a Timing that overflows
ExportPanicsOnlyOnOverflow ==
    (mem_call.op \in {"get_full_steps", "get_succinct_steps"} /\ MemResult.kind # "Ok")
        => ~NoTimingOverflows

\* the ActionSteps with a code_action, in step order
StepsWithCode == SelectSeq(MemSteps, LAMBDA s : s.kind = "Action" /\ s.code_action.some)

RECURSIVE SeparatedBy(_, _)
\* the texts of ss with sep between consecutive ones
SeparatedBy(ss, sep) ==
    IF Len(ss) = 0 THEN <<>>
    ELSE IF Len(ss) = 1 THEN ss[1]
    ELSE SeparatedBy(SubSeq(ss, 1, Len(ss) - 1), sep) \o <<sep>> \o ss[Len(ss)]

\* C13: return_full_code is the code_action values of exactly the ActionSteps
\* that have one, in step order, joined by "\n\n"; other steps contribute
\* nothing and no separator, no code_action gives the empty string, and the
\* steps [Task, Action("a"), Planning, Action(None), Action("b")] give "a\n\nb".
C13_FullCodeJoinsCodeActions ==
    mem_call.op = "return_full_code" =>
        /\ MemResult.kind = "Ok"
        /\ MemResult.value
             = SeparatedBy([i \in DOMAIN StepsWithCode |-> StepsWithCode[i].code_action.v], "\n\n")
        /\ StepsWithCode = <<>> => MemResult.value = <<>>
        /\ MemSteps = ExampleSteps => MemResult.value = <<"a", "\n\n", "b">>

\* return_full_code was called on the steps of the example
C13_Witness ==
    /\ mem_call.op = "return_full_code"
    /\ MemSteps = ExampleSteps
    /\ MemResult = Returned(<<"a", "\n\n", "b">>)

\* since the last reset nothing was pushed: the log is empty and every export
\* is empty
EmptyAfterReset ==
    mem_call.after_reset =>
        /\ MemSteps = <<>>
        /\ mem_call.op = "get_full_steps" => MemResult = Returned(<<>>)
        /\ mem_call.op = "get_succinct_steps" => MemResult = Returned(<<>>)
        /\ mem_call.op = "return_full_code" => MemResult = Returned(<<>>)

\* a reset empties the log and keeps the system prompt step
ResetKeepsSystemPrompt ==
    mem_call'.op = "reset" =>
        /\ memory'.steps = <<>>
        /\ memory'.system_prompt = memory.system_prompt

\* C14: after any sequence of appends, reset leaves the step sequence empty and
\* the system prompt step unchanged; after reset, get_full_steps and
\* get_succinct_steps return empty sequences and return_full_code the empty string.
C14_ResetClearsStepsOnly == []EmptyAfterReset /\ [][ResetKeepsSystemPrompt]_vars

\* the five steps of the example were cleared by a reset, then the log was exported
C14_Witness ==
    /\ mem_call.after_reset /\ mem_call.cleared = Len(ExampleSteps)
    /\ mem_call.op = "get_succinct_steps"
    /\ MemResult = Returned(<<>>)
    /\ memory.system_prompt.system_prompt = PromptTemplates.system_prompt

\* C17: two steps of the same kind in a memory have exported records (full and
\* succinct) with exactly the same keys, whatever optional fields are set; an
\* unset optional field is exported as an explicit null, never omitted.
C17_SameKeysForSameKind ==
    (mem_call.op \in {"get_full_steps", "get_succinct_steps"} /\ MemResult.kind = "Ok") =>
        /\ Len(MemResult.value) = Len(MemSteps)
        /\ \A i, j \in DOMAIN MemSteps :
             MemSteps[i].kind = MemSteps[j].kind
                 => DOMAIN MemResult.value[i].v = DOMAIN MemResult.value[j].v
        /\ \A i \in DOMAIN MemSteps :
             \A f \in OptionalFields(MemSteps[i].kind) :
                 (mem_call.op = "get_succinct_steps" /\ f = "model_input_messages")
                 \/ /\ f \in DOMAIN MemResult.value[i].v
                    /\ ~MemSteps[i][f].some => MemResult.value[i].v[f] = ValueNull

\* the full export of an ActionStep with no optional field set and one with all set
C17_Witness ==
    /\ mem_call.op = "get_full_steps"
    /\ MemResult.kind = "Ok"
    /\ MemSteps = << ActionStep({}, <<"a">>, SomeTiming),
                     ActionStep(ActionOptionalFields, <<"a">>, SomeTiming) >>


(***************************************************************************)
(* Timing::duration called on a Timing                                     *)
(***************************************************************************)
\* values of start_time and end_time: the ends of the i32 range and around 0
I32Samples == {MinI32, MinI32 + 1, -2, -1, 0, 1, 2, MaxI32 - 1, MaxI32}

SpecTimingInit ==
    /\ RunIdle
    /\ ActIdle
    /\ MemIdle /\ RegIdle /\ ConcIdle /\ PromptIdle /\ RenderIdle
    /\ timing \in { Timing(s, e) : s, e \in I32Samples }
    /\ duration = NoResult

\* timing.duration(), in a build with or without overflow checks
Duration ==
    /\ duration = NoResult
    /\ \E overflow_checks \in BOOLEAN : duration' = TimingDuration(timing, overflow_checks)
    /\ UNCHANGED <<timing, runVars, act_log, actVars, mem_call, registry, registered,
                   notified, runs, shared_model, prompt_call, rendering>>

TimingNext ==
    \/ Duration

SpecTiming == SpecTimingInit /\ [][TimingNext]_vars

\* C16: for every Timing over the whole range of its i32 start_time and
\* end_time, duration() returns end_time - start_time without wrapping or
\* aborting, and the value is negative exactly when end_time < start_time.
C16_DurationIsDifference ==
    duration # NoResult =>
        /\ duration.kind = "Ok"
        /\ ~SubOverflows(timing.end_time, timing.start_time)
        /\ duration.value = timing.end_time - timing.start_time
        /\ (duration.value < 0) <=> (timing.end_time < timing.start_time)

\* duration() is as C16 says whenever the difference is an i32
DurationExactWithoutOverflow ==
    (duration # NoResult /\ ~SubOverflows(timing.end_time, timing.start_time)) =>
        /\ duration = Returned(timing.end_time - timing.start_time)
        /\ (duration.value < 0) <=> (timing.end_time < timing.start_time)

(***************************************************************************)
(* CallbackRegistry: register and callback                                 *)
(***************************************************************************)
MaxCallbacks == 3

\* TypeId::of::<S>() for the types that implement MemoryStep
StepTypes == {"Action", "Planning", "Task", "SystemPrompt", "FinalAnswer"}

\* SystemPromptStep { system_prompt } and FinalAnswerStep { output }
SystemPromptStep(system_prompt) == [kind |-> "SystemPrompt", system_prompt |-> system_prompt]
FinalAnswerStep(output_) == [kind |-> "FinalAnswer", output |-> output_]

\* memory_step.as_any().type_id()
type_id(memory_step) == memory_step.kind

\* one step of each type
NotifiedSteps ==
    [Action |-> ActionStep({}, <<"a">>, SomeTiming),
     Planning |-> PlanningStep(<<UserMessage>>, None, PLAN, SomeTiming, None),
     Task |-> TaskStep(<<"What is 2+2?">>, None),
     SystemPrompt |-> SystemPromptStep(PromptTemplates.system_prompt),
     FinalAnswer |-> FinalAnswerStep(<<"4">>)]

\* the closure register::<S, F> wraps the callback in: it downcasts to S
Wrapped(S, callback) == [S |-> S, callback |-> callback]

\* A faulty register: the wrapped callback is put in front
register_front(callbacks, S, callback) ==
    [t \in DOMAIN callbacks \cup {S} |->
        IF t = S
        THEN <<Wrapped(S, callback)>> \o (IF S \in DOMAIN callbacks THEN callbacks[S] ELSE <<>>)
        ELSE callbacks[t]]

\* CallbackRegistry::register: callbacks.entry(TypeId::of::<S>()).or_default().push(wrapped)
register(callbacks, S, callback) ==
    [t \in DOMAIN callbacks \cup {S} |->
        IF t = S
        THEN Append(IF S \in DOMAIN callbacks THEN callbacks[S] ELSE <<>>, Wrapped(S, callback))
        ELSE callbacks[t]]

\* calling one wrapped callback: the callback runs if the downcast succeeds
RECURSIVE CallEach(_, _)
CallEach(cbs, memory_step) ==
    IF cbs = <<>> THEN <<>>
    ELSE (IF Head(cbs).S = type_id(memory_step)
          THEN <<[callback |-> Head(cbs).callback, step |-> memory_step]>>
          ELSE <<>>)
           \o CallEach(Tail(cbs), memory_step)

\* CallbackRegistry::callback: the invocations it makes, in order
callback(callbacks, memory_step) ==
    IF type_id(memory_step) \in DOMAIN callbacks
    THEN CallEach(callbacks[type_id(memory_step)], memory_step)
    ELSE <<>>

\* CallbackRegistry::new()
SpecRegInit ==
    /\ RunIdle
    /\ ActIdle
    /\ MemIdle /\ TimingIdle /\ ConcIdle /\ PromptIdle /\ RenderIdle
    /\ registry = <<>>
    /\ registered = <<>>
    /\ notified = NoResult

regFrame == <<runVars, act_log, actVars, mem_call, timing, duration, runs, shared_model,
              prompt_call, rendering>>

\* registry.register::<S, _>(callback); the callback is named by its position
\* among the register calls
Register ==
    /\ Len(registered) < MaxCallbacks
    /\ \E S \in StepTypes :
         /\ registry' = register(registry, S, Len(registered) + 1)
         /\ registered' = Append(registered, [S |-> S, callback |-> Len(registered) + 1])
    /\ UNCHANGED <<notified, regFrame>>

\* registry.callback(&step)
Notify ==
    /\ \E t \in StepTypes :
         notified' = [kind |-> "Notified", step |-> NotifiedSteps[t],
                      registered |-> registered,
                      invoked |-> callback(registry, NotifiedSteps[t])]
    /\ UNCHANGED <<registry, registered, regFrame>>

RegNext ==
    \/ Register
    \/ Notify

SpecReg == SpecRegInit /\ [][RegNext]_vars

\* the callbacks registered for type K before the notify, in registration order
RegisteredFor(K) ==
    LET sel == SelectSeq(notified.registered, LAMBDA r : r.S = K)
    IN  [i \in DOMAIN sel |-> sel[i].callback]

\* C15: after any register calls, a notify with a step of kind K invokes every
\* callback registered for K exactly once with that step, in registration
\* order, and no callback registered for another kind; with none registered
\* for K it does nothing.
C15_NotifyInvokesRegisteredInOrder ==
    notified # NoResult =>
        LET K == notified.step.kind
        IN  /\ [i \in DOMAIN notified.invoked |-> notified.invoked[i].callback] = RegisteredFor(K)
            /\ \A i \in DOMAIN notified.invoked : notified.invoked[i].step = notified.step
            /\ \A i \in DOMAIN notified.registered :
                 Cardinality({ j \in DOMAIN notified.invoked :
                                 notified.invoked[j].callback = notified.registered[i].callback })
                   = IF notified.registered[i].S = K THEN 1 ELSE 0
            /\ RegisteredFor(K) = <<>> => notified.invoked = <<>>

\* callbacks 1 and 3 were registered for ActionStep, 2 for TaskStep, and an
\* ActionStep was notified
C15_Witness ==
    /\ notified # NoResult
    /\ notified.step.kind = "Action"
    /\ [i \in DOMAIN notified.registered |-> notified.registered[i].S]
         = <<"Action", "Task", "Action">>
    /\ [i \in DOMAIN notified.invoked |-> notified.invoked[i].callback] = <<1, 3>>


(***************************************************************************)
(* Concurrent runs on one shared agent (Arc<Agent>): each run(task) makes  *)
(* its own generator; the agent and its model are shared by reference.     *)
(***************************************************************************)
RunIds == {"A", "B"}

ConcTasks == { <<"What is 2+2?">>, <<"Name a prime.">> }
TaskPieces == {"What is 2+2?", "Name a prime."}

\* the pieces of a message content that come from a task
Digest(content) == SelectSeq(content, LAMBDA piece : piece \in TaskPieces)

\* Models whose answer depends only on the messages of the call
SharedModels == {"echo", "refuses_system", "bad_bytes"}

\* model.async_generate_stream(messages) of a shared model
generate_stream(model, messages) ==
    CASE model = "echo" ->
           [ok |-> TRUE, chunks |-> [i \in DOMAIN messages |-> Digest(messages[i].content)]]
      [] model = "refuses_system" ->
           IF messages[1].role = "system"
           THEN [ok |-> FALSE, chunks |-> <<>>]
           ELSE [ok |-> TRUE, chunks |-> <<Digest(messages[Len(messages)].content)>>]
      [] model = "bad_bytes" ->
           [ok |-> TRUE,
            chunks |-> <<<<BadByte>>, Digest(messages[Len(messages)].content)>>]

\* the generator run(task) returns, before it is polled
NewRun(task_) ==
    [task |-> task_, pc |-> "loop", demand |-> FALSE, step |-> 0, buffer |-> <<>>,
     plan_stream |-> NoStream, gen_stream |-> NoStream, chunk |-> <<>>, output |-> <<>>]

SpecConcInit ==
    /\ agent \in { AgentNew(m, <<DuckDuckGoSearchAction, NaverNewsSearchAction>>, s) :
                     m \in 0..MaxStepsBound, s \in BOOLEAN }
    /\ task \in Tasks
    /\ pc = "loop" /\ demand = FALSE /\ step = 0 /\ buffer = <<>>
    /\ plan_stream = NoStream /\ gen_stream = NoStream
    /\ chunk = <<>> /\ output = <<>> /\ produced = <<>> /\ calls = <<>>
    /\ memory = AgentMemoryNew(PromptTemplates.system_prompt)
    /\ act_log = <<>>
    /\ ActIdle
    /\ MemIdle /\ RegIdle /\ TimingIdle /\ PromptIdle /\ RenderIdle
    /\ shared_model \in SharedModels
    /\ runs \in { [r \in RunIds |-> NewRun(IF r = "A" THEN ta ELSE tb)] :
                    ta \in ConcTasks, tb \in ConcTasks }

concFrame == <<runVars, act_log, actVars, mem_call, registry, registered, notified,
               timing, duration, shared_model, prompt_call, rendering>>

\* A faulty buffer: one buffer behind the shared agent, every run sees the push
push_str_shared(rs, r, text) == [q \in DOMAIN rs |-> [rs[q] EXCEPT !.buffer = @ \o text]]

\* buffer.push_str(&chunk): the buffer is a local of the generator of run r
push_str(rs, r, text) == [rs EXCEPT ![r].buffer = @ \o text]

\* stream.next() on the output stream of run r
ConcPull ==
    /\ \E r \in RunIds :
         /\ ~runs[r].demand
         /\ runs[r].pc \notin {"done", "panicked"}
         /\ runs' = [runs EXCEPT ![r].demand = TRUE]
    /\ UNCHANGED concFrame

\* `for step in 1..=max_steps` of run r
ConcNextStep ==
    /\ \E r \in RunIds :
         /\ runs[r].demand /\ runs[r].pc = "loop"
         /\ runs' = IF runs[r].step < agent.max_steps
                    THEN [runs EXCEPT ![r].step = @ + 1, ![r].pc = "plan"]
                    ELSE [runs EXCEPT ![r].pc = "done", ![r].demand = FALSE]
    /\ UNCHANGED concFrame

\* self.plan(&task_str, step == 1) of run r
ConcPlanCall ==
    /\ \E r \in RunIds :
         /\ runs[r].demand /\ runs[r].pc = "plan"
         /\ LET res == generate_stream(shared_model,
                                       PlanInputMessages(runs[r].task, runs[r].step = 1))
            IN  runs' =
                  IF agent.stream_outputs
                  THEN [runs EXCEPT ![r].plan_stream =
                                        IF res.ok THEN [kind |-> "Stream", items |-> res.chunks]
                                                  ELSE [kind |-> "Text", items |-> << <<>> >>],
                                    ![r].buffer = <<>>,
                                    ![r].pc = "plan_next"]
                  ELSE IF res.ok
                  THEN [runs EXCEPT ![r].plan_stream =
                                        [kind |-> "Text",
                                         items |-> <<async_generate_text(res.chunks)>>],
                                    ![r].buffer = <<>>,
                                    ![r].pc = "plan_next"]
                  ELSE [runs EXCEPT ![r].pc = "panicked", ![r].demand = FALSE]
    /\ UNCHANGED concFrame

\* `while let Some(chunk) = plan_stream.next().await { buffer.push_str(&chunk);` of run r
ConcPlanNext ==
    /\ \E r \in RunIds :
         /\ runs[r].demand /\ runs[r].pc = "plan_next"
         /\ runs' =
              IF runs[r].plan_stream.items # <<>>
              THEN LET c == IF runs[r].plan_stream.kind = "Stream"
                            THEN FromUtf8Lossy(Head(runs[r].plan_stream.items))
                            ELSE Head(runs[r].plan_stream.items)
                   IN  [push_str(runs, r, c) EXCEPT ![r].chunk = c,
                                                    ![r].plan_stream.items = Tail(@),
                                                    ![r].pc = "plan_yield"]
              ELSE [runs EXCEPT ![r].pc = "gen"]
    /\ UNCHANGED concFrame

\* `yield chunk;` in the plan loop of run r
ConcPlanYield ==
    /\ \E r \in RunIds :
         /\ runs[r].demand /\ runs[r].pc = "plan_yield"
         /\ runs' = [runs EXCEPT ![r].output = Append(@, runs[r].chunk),
                                 ![r].demand = FALSE,
                                 ![r].pc = "plan_next"]
    /\ UNCHANGED concFrame

\* the generation call of run r
ConcGenCall ==
    /\ \E r \in RunIds :
         /\ runs[r].demand /\ runs[r].pc = "gen"
         /\ LET res == generate_stream(shared_model, GenMessages(runs[r].buffer, runs[r].task))
            IN  runs' =
                  IF agent.stream_outputs
                  THEN (IF res.ok
                        THEN [runs EXCEPT ![r].gen_stream = [kind |-> "Stream", items |-> res.chunks],
                                          ![r].pc = "gen_next"]
                        ELSE [runs EXCEPT ![r].chunk = <<>>, ![r].pc = "gen_yield_last"])
                  ELSE IF res.ok
                  THEN [runs EXCEPT ![r].chunk = async_generate_text(res.chunks),
                                    ![r].pc = "gen_yield_last"]
                  ELSE [runs EXCEPT ![r].pc = "panicked", ![r].demand = FALSE]
    /\ UNCHANGED concFrame

\* `while let Some(res) = gen_stream.next().await {` of run r
ConcGenNext ==
    /\ \E r \in RunIds :
         /\ runs[r].demand /\ runs[r].pc = "gen_next"
         /\ runs' =
              IF runs[r].gen_stream.items # <<>>
              THEN [runs EXCEPT ![r].chunk = FromUtf8Lossy(Head(runs[r].gen_stream.items)),
                                ![r].gen_stream.items = Tail(@),
                                ![r].pc = "gen_yield"]
              ELSE [runs EXCEPT ![r].pc = "loop"]
    /\ UNCHANGED concFrame

\* `yield chunk;` in the generation loop of run r
ConcGenYield ==
    /\ \E r \in RunIds :
         /\ runs[r].demand /\ runs[r].pc = "gen_yield"
         /\ runs' = [runs EXCEPT ![r].output = Append(@, runs[r].chunk),
                                 ![r].demand = FALSE,
                                 ![r].pc = "gen_next"]
    /\ UNCHANGED concFrame

\* `yield String::new();` / `yield text;` of run r
ConcGenYieldLast ==
    /\ \E r \in RunIds :
         /\ runs[r].demand /\ runs[r].pc = "gen_yield_last"
         /\ runs' = [runs EXCEPT ![r].output = Append(@, runs[r].chunk),
                                 ![r].demand = FALSE,
                                 ![r].pc = "loop"]
    /\ UNCHANGED concFrame

ConcNext ==
    \/ ConcPull
    \/ ConcNextStep
    \/ ConcPlanCall
    \/ ConcPlanNext
    \/ ConcPlanYield
    \/ ConcGenCall
    \/ ConcGenNext
    \/ ConcGenYield
    \/ ConcGenYieldLast

SpecConc == SpecConcInit /\ [][ConcNext]_vars

(***************************************************************************)
(* Properties of concurrent runs                                           *)
(***************************************************************************)
\* the chunks a call delivers: those of the stream, one empty chunk for a
\* failed call when streaming, the whole text otherwise
DeliveredChunks(res) ==
    IF ~res.ok THEN << <<>> >>
    ELSE IF agent.stream_outputs THEN [i \in DOMAIN res.chunks |-> FromUtf8Lossy(res.chunks[i])]
    ELSE <<Flatten([i \in DOMAIN res.chunks |-> FromUtf8Lossy(res.chunks[i])])>>

RECURSIVE Alone(_, _, _)
\* the output of iterations k.. of a run of task t on model m running alone,
\* and how it ends
Alone(m, t, k) ==
    IF k > agent.max_steps THEN [out |-> <<>>, end |-> "done"]
    ELSE LET p == generate_stream(m, PlanInputMessages(t, k = 1))
         IN  IF ~p.ok /\ ~agent.stream_outputs THEN [out |-> <<>>, end |-> "panicked"]
             ELSE LET plan_chunks == DeliveredChunks(p)
                      g == generate_stream(m, GenMessages(Flatten(plan_chunks), t))
                  IN  IF ~g.ok /\ ~agent.stream_outputs
                      THEN [out |-> plan_chunks, end |-> "panicked"]
                      ELSE LET rest == Alone(m, t, k + 1)
                           IN  [out |-> plan_chunks \o DeliveredChunks(g) \o rest.out,
                                end |-> rest.end]

\* what each run has delivered is what it delivers alone
OutputsAsAlone ==
    \A r \in RunIds :
        LET alone == Alone(shared_model, runs[r].task, 1)
        IN  /\ IsPrefix(runs[r].output, alone.out)
            /\ runs[r].pc \in {"done", "panicked"} =>
                 (runs[r].output = alone.out /\ runs[r].pc = alone.end)

\* a step of one run changes neither the agent, nor the memory log, nor
\* anything of another run
NoInterference ==
    /\ agent' = agent
    /\ memory' = memory
    /\ \A r \in RunIds : runs'[r] # runs[r] => \A q \in RunIds \ {r} : runs'[q] = runs[q]

\* C18: when runs execute concurrently on one shared agent, under every
\* interleaving of their chunk-level suspensions each run's output sequence is
\* the one it produces alone (model answers depending only on the messages),
\* and no run changes the agent's actions, max_steps, prompt templates or
\* another run's memory.
C18_RunsDoNotInterfere == []OutputsAsAlone /\ [][NoInterference]_vars

\* two runs of different tasks are both under way on the echo model: A has
\* delivered its first plan chunk, B is in its generation phase
C18_Witness ==
    /\ shared_model = "echo" /\ agent.stream_outputs /\ agent.max_steps = 2
    /\ runs["A"].task # runs["B"].task
    /\ runs["A"].step = 2 /\ runs["A"].pc = "plan_yield" /\ runs["A"].output # <<>>
    /\ runs["B"].step = 1 /\ runs["B"].pc = "gen_yield" /\ runs["B"].output # <<>>


(***************************************************************************)
(* Properties of a run: suspension and the planning prompt                 *)
(***************************************************************************)
\* the yield the loop stands at when a chunk of phase ph is pending
YieldOf(ph) == IF ph = "plan" THEN "plan_yield" ELSE "gen_yield"

\* every chunk taken from the stream of an answered call is delivered
AllDelivered ==
    \A k \in Iterations, ph \in Phases :
        CallOk(k, ph) => Len(ProducedTexts(k, ph)) = Len(OutputTexts(k, ph))

\* when streaming, at most one chunk of a stream is taken and not yet
\* delivered, and then the loop stands at the yield of that chunk
OneChunkPending ==
    agent.stream_outputs =>
        \A k \in Iterations, ph \in Phases :
            CallOk(k, ph) =>
                /\ Len(ProducedTexts(k, ph)) <= Len(OutputTexts(k, ph)) + 1
                /\ Len(ProducedTexts(k, ph)) = Len(OutputTexts(k, ph)) + 1
                     => (demand /\ step = k /\ pc = YieldOf(ph))

\* the loop does nothing until the caller pulls, it suspends when it hands a
\* chunk over, and it makes a model call or takes a chunk only when every
\* chunk taken before is delivered
SuspendsAtEveryChunk ==
    /\ ~demand => (calls' = calls /\ produced' = produced /\ output' = output)
    /\ agent.stream_outputs =>
         /\ output' # output => (~demand' /\ Len(output') = Len(output) + 1)
         /\ produced' # produced => (AllDelivered /\ Len(produced') = Len(produced) + 1)
         /\ calls' # calls => AllDelivered

\* C19: in streaming mode the loop suspends at every chunk boundary: each plan
\* and generation chunk is handed to the caller before the next one is
\* requested from the model stream, the first chunk of a plan is delivered
\* before the plan is complete, and no further model call is made while the
\* caller has not pulled the pending chunk.
C19_SuspendsAtChunkBoundaries == []OneChunkPending /\ [][SuspendsAtEveryChunk]_vars

\* the caller holds the first chunk of a plan, the rest of the plan is still in
\* the model stream and the generation call is not made
C19_Witness ==
    /\ agent.stream_outputs /\ ~demand /\ pc = "plan_next" /\ step = 1
    /\ [i \in DOMAIN output |-> output[i].text] = << <<"P", "L">> >>
    /\ plan_stream.items = << <<"A", "N">> >>
    /\ Len(calls) = 1 /\ Len(produced) = 1

\* C20: for every step k >= 2 the planning prompt sent to the model is built
\* from the memory log of steps 1..k-1: it contains messages rendered from the
\* earlier plans and model outputs, so runs that differ in what step 1
\* produced send different planning prompts at step 2.
C20_PlanningPromptFromMemory ==
    \A i \in DOMAIN calls :
        (calls[i].phase = "plan" /\ calls[i].step >= 2) =>
            \A j \in 1..(calls[i].step - 1) :
                /\ \E m \in DOMAIN calls[i].messages :
                     calls[i].messages[m]
                       = Message("assistant", Flatten(ProducedTexts(j, "plan")))
                /\ \E m \in DOMAIN calls[i].messages :
                     calls[i].messages[m]
                       = Message("assistant", Flatten(ProducedTexts(j, "gen")))

\* the planning prompt of every step k >= 2 is the two messages of the update
\* templates with the task filled in, whatever the earlier steps produced
UpdatePromptIgnoresEarlierSteps ==
    \A i \in DOMAIN calls :
        (calls[i].phase = "plan" /\ calls[i].step >= 2) =>
            calls[i].messages
              = << Message("system", PromptTemplates.update_plan_pre_messages),
                   Message("user", <<"Task was: ">> \o task) >>


(***************************************************************************)
(* Properties of a run: step numbers, the order of the model calls and     *)
(* their messages                                                          *)
(***************************************************************************)
\* the model calls of one phase, in the order they were made
CallsOf(ph) == SelectSeq(calls, LAMBDA c : c.phase = ph)

\* the ActionSteps of the memory log, in order
ActionStepsOf(m) == SelectSeq(m.steps, LAMBDA s : s.kind = "Action")

\* the state part of C21: the iterations that made calls are numbered 1, 2, ...
\* in the order they ran, none above the loop variable, and the ActionSteps of
\* the log carry increasing numbers of iterations that ran
StepNumbersInOrder ==
    /\ step \in 0..agent.max_steps
    /\ \A ph \in Phases : \A i \in DOMAIN CallsOf(ph) : CallsOf(ph)[i].step = i
    /\ \A i, j \in DOMAIN calls : i < j => calls[i].step <= calls[j].step
    /\ \A i \in DOMAIN calls : calls[i].step \in 1..step
    /\ LET A == ActionStepsOf(memory)
       IN  /\ \A i \in DOMAIN A : A[i].step_number \in 1..step
           /\ \A i, j \in DOMAIN A : i < j => A[i].step_number < A[j].step_number

\* the loop variable changes by exactly one, and only to start an iteration
StepAdvancesByOne == step' # step => (step' = step + 1 /\ pc = "loop" /\ pc' = "plan")

HasCall(k, ph) == \E i \in DOMAIN calls : calls[i].step = k /\ calls[i].phase = ph

\* every generation call comes right after the plan call of its iteration, when
\* the plan stream has ended, with the two messages built from the plan chunks
\* the caller received and from the task
GenerationCallsAsStated ==
    \A i \in DOMAIN calls :
        calls[i].phase = "gen" =>
            LET k == calls[i].step
                delivered == Flatten(OutputTexts(k, "plan"))
            IN  /\ i > 1 /\ calls[i - 1].phase = "plan" /\ calls[i - 1].step = k
                /\ Complete(k, "plan")
                /\ k = step => plan_stream.items = <<>>
                /\ delivered = Flatten(ProducedTexts(k, "plan"))
                /\ calls[i].messages
                     = << [role |-> "system", content |-> plan_for_generation(delivered)],
                          [role |-> "user", content |-> task] >>
                /\ ~calls[i - 1].ok => delivered = <<>>

\* once the plan phase of an iteration is over, its generation call is made or
\* is the next thing the loop does
PlanLeadsToGeneration ==
    \A k \in Iterations :
        (HasCall(k, "plan") /\ Complete(k, "plan")) =>
            (HasCall(k, "gen") \/ (step = k /\ pc = "gen"))

\* C23: in every iteration the generation call is issued only after the plan
\* stream of the iteration has ended; its messages are a system message
\* wrapping the concatenation of the plan chunks delivered in the iteration and
\* a user message with the unmodified task; a failed plan call leads to a
\* generation call with an empty plan.
C23_GenerationFollowsPlan == GenerationCallsAsStated /\ PlanLeadsToGeneration

\* when streaming, C23 holds: a failed plan call is followed by a generation
\* call whose plan is empty
StreamingGenerationFollowsPlan ==
    agent.stream_outputs => (GenerationCallsAsStated /\ PlanLeadsToGeneration)

\* the calls made so far are plan, generation, plan, generation, ... of the
\* iterations 1, 1, 2, 2, ...; a run that ended made both calls of each of its
\* n iterations
CallsAlternate ==
    /\ \A i \in DOMAIN calls :
         /\ calls[i].phase = (IF i % 2 = 1 THEN "plan" ELSE "gen")
         /\ calls[i].step = (i + 1) \div 2
    /\ (pc = "done" /\ \A i \in DOMAIN calls : calls[i].ok) =>
         /\ Len(CallsOf("plan")) = agent.max_steps
         /\ Len(CallsOf("gen")) = agent.max_steps

\* the plan call of an iteration after the first is made when the generation
\* stream of the iteration before is exhausted and each of its chunks is with
\* the caller
NextCallAfterLastChunk ==
    (Len(calls') > Len(calls) /\ calls'[Len(calls')].phase = "plan" /\ step > 1) =>
        /\ gen_stream.items = <<>>
        /\ Flatten(OutputTexts(step - 1, "gen")) = Flatten(ProducedTexts(step - 1, "gen"))
        /\ (agent.stream_outputs /\ CallOk(step - 1, "gen"))
             => OutputTexts(step - 1, "gen") = ProducedTexts(step - 1, "gen")

\* C24: a run with max_steps = n whose model never fails makes exactly n
\* planning calls and n generation calls, alternating plan, generate, plan,
\* generate, starting with a plan; the call of iteration k+1 is never issued
\* before the last generation chunk of iteration k has been delivered.
C24_CallsAlternate == []CallsAlternate /\ [][NextCallAfterLastChunk]_vars

\* a streaming run of two iterations over a model that never failed has ended;
\* the generation of iteration 1 came in two chunks
C24_Witness ==
    /\ pc = "done" /\ agent.max_steps = 2 /\ agent.stream_outputs
    /\ \A i \in DOMAIN calls : calls[i].ok
    /\ [i \in DOMAIN calls |-> calls[i].phase] = <<"plan", "gen", "plan", "gen">>
    /\ Len(OutputTexts(1, "gen")) = 2

\* a template with each placeholder piece replaced by its text, all at once
Substituted(template, task_, tools_, managed_agents_) ==
    Flatten([i \in DOMAIN template |->
               CASE template[i] = "{task}" -> task_
                 [] template[i] = "{tools}" -> tools_
                 [] template[i] = "{managed_agents}" -> managed_agents_
                 [] OTHER -> <<template[i]>>])

\* C25: the planning prompt variant is chosen by is_initial, true for step 1
\* and false for every later step: step 1 sends a single user message built
\* from the initial-plan template with {task}, {tools} and {managed_agents}
\* substituted; every later step sends a system message with the update-plan
\* pre-template, then a user message built from the update-plan post-template
\* with {task} substituted.
C25_PromptVariantByStep ==
    \A i \in DOMAIN calls :
        calls[i].phase = "plan" =>
            IF calls[i].step = 1
            THEN calls[i].messages
                   = << [role |-> "user",
                         content |-> Substituted(agent.prompt.initial_plan, task,
                                                 tools_str(agent.available_actions), <<>>)] >>
            ELSE calls[i].messages
                   = << [role |-> "system", content |-> agent.prompt.update_plan_pre_messages],
                        [role |-> "user",
                         content |-> Substituted(agent.prompt.update_plan_post_messages, task,
                                                 <<"{tools}">>, <<"{managed_agents}">>)] >>

\* the plan call of step 2 has just been made, after the one of step 1
C25_Witness ==
    /\ Len(calls) = 3 /\ step = 2 /\ pc = "plan_next"
    /\ calls[1].phase = "plan" /\ calls[1].step = 1 /\ Len(calls[1].messages) = 1
    /\ calls[3].phase = "plan" /\ calls[3].step = 2 /\ Len(calls[3].messages) = 2


(***************************************************************************)
(* Properties of prepare_inputs: the order of its result                   *)
(***************************************************************************)
\* the first declaration of a parameter called name
DeclarationIndex(name) ==
    CHOOSE j \in DeclaredIndices :
        Declared(j).name = name /\ \A j2 \in 1..(j - 1) : Declared(j2).name # name

\* C22: the matched inputs returned by prepare_inputs are ordered by the
\* action's parameter declaration order: when p1, p2 are declared in that order
\* and both are matched, the entry for p1 comes before the entry for p2,
\* whatever the order of the supplied inputs.
C22_MatchedInDeclarationOrder ==
    act_pc = "iterated" =>
        \A i, j \in DOMAIN act_result.keys :
            i < j => DeclarationIndex(act_result.keys[i]) < DeclarationIndex(act_result.keys[j])

\* the pairs prepare_inputs collects are in declaration order before they go
\* into the map, and the map holds one entry per matched name
PairsInDeclarationOrder ==
    Prepared =>
        LET pairs == MatchedPairs(the_action.parameters, inputs)
        IN  /\ \A i, j \in DOMAIN pairs :
                 i < j => DeclarationIndex(pairs[i][1]) <= DeclarationIndex(pairs[j][1])
            /\ DOMAIN matched = { pairs[i][1] : i \in DOMAIN pairs }


(***************************************************************************)
(* Agent::plan called directly: the planning prompt and what plan returns  *)
(***************************************************************************)
MaxActions == 2

\* the initial-plan templates load_config may return: with the three
\* placeholders, without {tools}, with {tools} first, with no placeholder
InitialPlanTemplates ==
    { PromptTemplates.initial_plan,
      <<"Plan for: ", "{task}", " Team: ", "{managed_agents}">>,
      <<"{tools}", " for ", "{task}">>,
      <<"Make a plan.">> }

PlanTasks == Tasks \cup { <<"Find", " news">> }

\* PlanOutput::Stream(chunks) / PlanOutput::Text(text)
PlanOutputStream(chunks) == [kind |-> "Stream", chunks |-> chunks]
PlanOutputText(text) == [kind |-> "Text", text |-> text]

\* what plan returns for the answer r of the model: the mapped stream or
\* Text("") with stream_outputs, the text of async_generate without
PlanOutput(r) ==
    IF agent.stream_outputs
    THEN IF r.ok THEN PlanOutputStream([i \in DOMAIN r.chunks |-> FromUtf8Lossy(r.chunks[i])])
                 ELSE PlanOutputText(<<>>)
    ELSE IF r.ok THEN PlanOutputText(async_generate_text(r.chunks))
                 ELSE Panic("Failed to generate stream")

\* An agent is constructed with any list of actions and any of the templates;
\* it is not run.
SpecPlanInit ==
    /\ agent \in { [AgentNew(0, acts, s) EXCEPT !.prompt.initial_plan = tpl] :
                     acts \in SeqsUpTo({DuckDuckGoSearchAction, NaverNewsSearchAction}, MaxActions),
                     tpl \in InitialPlanTemplates, s \in BOOLEAN }
    /\ task \in PlanTasks
    /\ pc = "loop" /\ demand = FALSE /\ step = 0 /\ buffer = <<>>
    /\ plan_stream = NoStream /\ gen_stream = NoStream
    /\ chunk = <<>> /\ output = <<>> /\ produced = <<>> /\ calls = <<>>
    /\ memory = AgentMemoryNew(PromptTemplates.system_prompt)
    /\ act_log = <<>>
    /\ ActIdle
    /\ MemIdle /\ RegIdle /\ TimingIdle /\ ConcIdle /\ RenderIdle
    /\ prompt_call = NoResult

\* agent.plan(&task, is_initial)
Plan ==
    /\ prompt_call = NoResult
    /\ \E is_initial \in BOOLEAN, r \in ModelResults :
         prompt_call' = [kind |-> "Plan", is_initial |-> is_initial,
                         input_messages |-> PlanInputMessages(task, is_initial),
                         ok |-> r.ok, output |-> PlanOutput(r)]
    /\ UNCHANGED <<runVars, act_log, actVars, mem_call, registry, registered, notified,
                   timing, duration, runs, shared_model, rendering>>

PlanCallNext ==
    \/ Plan

SpecPlan == SpecPlanInit /\ [][PlanCallNext]_vars

(***************************************************************************)
(* Properties of the planning prompt                                       *)
(***************************************************************************)
RECURSIVE DescriptionsByLine(_)
\* the descriptions of the actions, a newline between one and the next
DescriptionsByLine(actions) ==
    IF actions = <<>> THEN <<>>
    ELSE IF Len(actions) = 1 THEN as_str(actions[1])
    ELSE DescriptionsByLine(SubSeq(actions, 1, Len(actions) - 1))
           \o <<"\n">> \o as_str(actions[Len(actions)])

Pieces(text) == { text[i] : i \in DOMAIN text }

\* C26: the text substituted for {tools} in the planning prompt is the
\* descriptions of all registered actions joined by a single newline, in the
\* order the actions were passed to the agent constructor; with no registered
\* action it is the empty string, and a template without the {tools}
\* placeholder is used unchanged without error.
C26_ToolsTextJoinsDescriptions ==
    (prompt_call # NoResult /\ prompt_call.is_initial) =>
        LET template == agent.prompt.initial_plan
            content == prompt_call.input_messages[1].content
        IN  /\ Len(prompt_call.input_messages) = 1
            /\ content = Substituted(template, task,
                                     DescriptionsByLine(agent.available_actions), <<>>)
            /\ agent.available_actions = <<>> =>
                 content = Substituted(template, task, <<>>, <<>>)
            /\ "{tools}" \notin Pieces(template) =>
                 content = Substituted(template, task, <<"{tools}">>, <<>>)

\* the initial prompt was built for an agent constructed with the Naver action
\* before the DuckDuckGo action, from the template with the three placeholders
C26_Witness ==
    /\ prompt_call # NoResult /\ prompt_call.is_initial
    /\ agent.available_actions = <<NaverNewsSearchAction, DuckDuckGoSearchAction>>
    /\ agent.prompt.initial_plan = PromptTemplates.initial_plan
    /\ prompt_call.input_messages[1].content
         = <<"Plan for: ">> \o task \o <<" Tools: ">>
             \o as_str(NaverNewsSearchAction) \o <<"\n">> \o as_str(DuckDuckGoSearchAction)
             \o <<" Team: ">>

\* a template without {tools} gives a prompt that holds no text of any action
PromptWithoutToolsPlaceholder ==
    (prompt_call # NoResult /\ prompt_call.is_initial
        /\ "{tools}" \notin Pieces(agent.prompt.initial_plan)) =>
        /\ Pieces(prompt_call.input_messages[1].content) \cap {"- ", "{tools}"} = {}
        /\ prompt_call.output.kind = "Panic" => (~prompt_call.ok /\ ~agent.stream_outputs)


(***************************************************************************)
(* MemoryStep::to_message (memory.rs)                                      *)
(***************************************************************************)
\* the keys that occur in the serde_json::Map objects of a ToolCall, in the
\* order such a map keeps them (sorted)
MapKeyOrder == <<"arguments", "name", "query">>

RECURSIVE JsonText(_)
\* serde_json::to_string of a Value
JsonText(v) ==
    CASE v.json = "Null" -> <<"null">>
      [] v.json = "Bool" -> <<IF v.v THEN "true" ELSE "false">>
      [] v.json = "Number" -> <<Decimal(v.v)>>
      [] v.json = "String" -> <<"\"">> \o v.v \o <<"\"">>
      [] v.json = "Array" ->
           <<"[">> \o Join([i \in DOMAIN v.v |-> JsonText(v.v[i])], <<",">>) \o <<"]">>
      [] v.json = "Object" ->
           LET keys == SelectSeq(MapKeyOrder, LAMBDA k : k \in DOMAIN v.v)
           IN  <<"{">>
                 \o Join([i \in DOMAIN keys |-> <<"\"", keys[i], "\":">> \o JsonText(v.v[keys[i]])],
                         <<",">>)
                 \o <<"}">>

\* serde_json::to_string of a HashMap<String, Value>: the entries are written
\* in the order the iteration of the map visits them
HashMapJson(d, key_order) ==
    <<"{">>
      \o Join([i \in DOMAIN key_order |->
                 <<"\"", key_order[i], "\":">> \o JsonText(d[key_order[i]])], <<",">>)
      \o <<"}">>

\* the iteration orders of the maps call.dict() builds for the tool calls of a
\* step, one fresh HashMap per tool call and per to_message call
KeyOrders(s) ==
    IF s.kind = "Action" /\ s.tool_calls.some
    THEN [DOMAIN s.tool_calls.v -> Orderings({"id", "type", "function"})]
    ELSE { <<>> }

\* format!("Error occurred: {}\nNow let's retry: ...\n", err)
error_msg(err) ==
    <<"Error occurred: ">> \o err
      \o <<"\nNow let's retry: take care not to repeat previous errors! If you have retried several times, try a completely different approach.\n">>

\* A faulty call_id: the id of the last tool call
call_id_last(s) ==
    IF s.tool_calls.some /\ s.tool_calls.v # <<>>
    THEN s.tool_calls.v[Len(s.tool_calls.v)].id
    ELSE <<"None">>

\* tool_calls.as_ref().and_then(|calls| calls.first().map(|c| c.id.clone()))
\*     .unwrap_or_else(|| "None".to_string())
call_id(s) ==
    IF s.tool_calls.some /\ s.tool_calls.v # <<>> THEN s.tool_calls.v[1].id ELSE <<"None">>

\* <ActionStep as MemoryStep>::to_message
ActionStepToMessage(s, summary_mode, key_orders) ==
    (IF s.model_output.some /\ ~summary_mode
     THEN <<Message("assistant", s.model_output.v)>> ELSE <<>>)
    \o (IF s.tool_calls.some
        THEN [i \in DOMAIN s.tool_calls.v |->
                Message("tool", <<"Calling tools:\n">>
                                  \o HashMapJson(ToolCallDict(s.tool_calls.v[i]), key_orders[i]))]
        ELSE <<>>)
    \o (IF s.observations_images.some
        THEN [i \in DOMAIN s.observations_images.v |->
                Message("user", <<"Observation image: ">> \o s.observations_images.v[i])]
        ELSE <<>>)
    \o (IF s.observations.some
        THEN <<Message("tool", <<"Observations:\n">> \o s.observations.v)>> ELSE <<>>)
    \o (IF s.error.some
        THEN <<Message("tool", <<"Call id: ">> \o call_id(s) \o <<"\n">> \o error_msg(s.error.v))>>
        ELSE <<>>)

\* <PlanningStep as MemoryStep>::to_message
PlanningStepToMessage(s, summary_mode) ==
    IF summary_mode THEN <<>>
    ELSE << Message("assistant", s.plan),
            Message("user", <<"Now proceed and carry out this plan.">>) >>

\* <TaskStep as MemoryStep>::to_message
TaskStepToMessage(s, summary_mode) ==
    <<Message("user", <<"New task:\n">> \o s.task)>>
    \o (IF s.task_images.some
        THEN [i \in DOMAIN s.task_images.v |->
                Message("user", <<"Task image: ">> \o s.task_images.v[i])]
        ELSE <<>>)

\* <SystemPromptStep as MemoryStep>::to_message
SystemPromptStepToMessage(s, summary_mode) ==
    IF summary_mode THEN <<>> ELSE <<Message("user", s.system_prompt)>>

\* <FinalAnswerStep as MemoryStep>::to_message
FinalAnswerStepToMessage(s, summary_mode) ==
    IF summary_mode THEN <<>> ELSE <<Message("user", s.output)>>

\* step.to_message(summary_mode), by the type of the step
to_message(s, summary_mode, key_orders) ==
    CASE s.kind = "Action" -> ActionStepToMessage(s, summary_mode, key_orders)
      [] s.kind = "Planning" -> PlanningStepToMessage(s, summary_mode)
      [] s.kind = "Task" -> TaskStepToMessage(s, summary_mode)
      [] s.kind = "SystemPrompt" -> SystemPromptStepToMessage(s, summary_mode)
      [] s.kind = "FinalAnswer" -> FinalAnswerStepToMessage(s, summary_mode)

(***************************************************************************)
(* to_message called on steps of every kind                                *)
(***************************************************************************)
SecondToolCall == ToolCall(<<"call_2">>, <<"NaverNewsSearchAction">>, [query |-> ValueString(<<"4">>)])

\* ActionSteps with two tool calls and two images, with an empty list of tool
\* calls, and with an error next to a tool call
MoreActionSteps ==
    LET all == ActionStep(ActionOptionalFields, <<"a">>, SomeTiming)
    IN  { [all EXCEPT !.tool_calls = Some(Append(@.v, SecondToolCall)),
                      !.observations_images = Some(<< <<"img1">>, <<"img2">> >>)],
          [all EXCEPT !.tool_calls = Some(<<SecondToolCall>> \o @.v), !.model_output = None],
          [ActionStep({"error"}, <<"a">>, SomeTiming) EXCEPT !.tool_calls = Some(<<>>)],
          ActionStep({"tool_calls", "error"}, <<"a">>, SomeTiming),
          ActionStep({"model_output", "error"}, <<"a">>, SomeTiming),
          ActionStep({"model_output", "observations"}, <<"a">>, SomeTiming) }

RenderedSteps ==
    TaskSteps \cup { TaskStep(<<"Find", " news">>, Some(<< <<"img1">>, <<"img2">> >>)) }
      \cup PlanningSteps \cup ActionSteps \cup MoreActionSteps
      \cup { SystemPromptStep(sp) : sp \in SystemPrompts }
      \cup { FinalAnswerStep(<<"4">>), FinalAnswerStep(<<>>) }

\* Rendering(step, full, summary): the step and what to_message returned for
\* summary_mode = false and for summary_mode = true
Rendering(step_, full, summary) == [step |-> step_, full |-> full, summary |-> summary]

SpecMsgInit ==
    /\ RunIdle
    /\ ActIdle
    /\ MemIdle /\ RegIdle /\ TimingIdle /\ ConcIdle /\ PromptIdle
    /\ rendering \in { Rendering(s, NoResult, NoResult) : s \in RenderedSteps }

\* a caller calls rendering.step.to_message(summary_mode)
ToMessage ==
    /\ \E summary_mode \in BOOLEAN, key_orders \in KeyOrders(rendering.step) :
         LET messages == Returned(to_message(rendering.step, summary_mode, key_orders))
         IN  IF summary_mode
             THEN /\ rendering.summary = NoResult
                  /\ rendering' = [rendering EXCEPT !.summary = messages]
             ELSE /\ rendering.full = NoResult
                  /\ rendering' = [rendering EXCEPT !.full = messages]
    /\ UNCHANGED <<runVars, act_log, actVars, mem_call, registry, registered, notified,
                   timing, duration, runs, shared_model, prompt_call>>

MsgNext ==
    \/ ToMessage

SpecMsg == SpecMsgInit /\ [][MsgNext]_vars


(***************************************************************************)
(* Properties of to_message                                                *)
(***************************************************************************)
RECURSIVE IsSubsequence(_, _)
\* a is b with some elements left out
IsSubsequence(a, b) ==
    IF a = <<>> THEN TRUE
    ELSE IF b = <<>> THEN FALSE
    ELSE IF Head(a) = Head(b) THEN IsSubsequence(Tail(a), Tail(b))
    ELSE IsSubsequence(a, Tail(b))

BothRendered == rendering.full # NoResult /\ rendering.summary # NoResult

\* C27: for every step of every kind, the messages of to_message with
\* summary_mode = true are a subsequence, in the same order, of the messages
\* with summary_mode = false: summary mode removes the whole output of
\* Planning, SystemPrompt and FinalAnswer steps and the assistant message with
\* an ActionStep's model_output, and leaves Task steps and an ActionStep's
\* tool-call, observation and error messages unchanged.
C27_SummaryIsSubsequence ==
    BothRendered =>
        LET full == rendering.full.value
            summary == rendering.summary.value
            kind == rendering.step.kind
        IN  /\ IsSubsequence(summary, full)
            /\ kind \in {"Planning", "SystemPrompt", "FinalAnswer"} => summary = <<>>
            /\ kind = "Task" => summary = full
            /\ kind = "Action" => summary = SelectSeq(full, LAMBDA m : m.role # "assistant")

\* a message without the order of its pieces
Unordered(m) == [role |-> m.role, length |-> Len(m.content), pieces |-> Pieces(m.content)]
UnorderedAll(ms) == [i \in DOMAIN ms |-> Unordered(ms[i])]

\* what holds of the two renderings: C27 with the text of each message taken
\* up to the order of its pieces, and as stated when the step has no tool call
SummaryIsSubsequenceUpToKeyOrder ==
    BothRendered =>
        LET full == rendering.full.value
            summary == rendering.summary.value
            s == rendering.step
        IN  /\ IsSubsequence(UnorderedAll(summary), UnorderedAll(full))
            /\ s.kind = "Action" =>
                 UnorderedAll(summary)
                   = UnorderedAll(SelectSeq(full, LAMBDA m : m.role # "assistant"))
            /\ (s.kind # "Action" \/ ~s.tool_calls.some \/ s.tool_calls.v = <<>>) =>
                 C27_SummaryIsSubsequence

\* the renderings of the step that were returned, full before summary
Renderings ==
    (IF rendering.full # NoResult
     THEN <<[summary_mode |-> FALSE, messages |-> rendering.full.value]>> ELSE <<>>)
    \o (IF rendering.summary # NoResult
        THEN <<[summary_mode |-> TRUE, messages |-> rendering.summary.value]>> ELSE <<>>)

\* the number of elements of an optional list
Count(opt) == IF opt.some THEN Len(opt.v) ELSE 0

\* text occurs in content from position at on
OccursAt(text, content, at) ==
    at + Len(text) - 1 <= Len(content) /\ SubSeq(content, at, at + Len(text) - 1) = text

IsCorrective(m) == m.role = "tool" /\ m.content # <<>> /\ m.content[1] = "Call id: "

\* the messages ms of ActionStep s in the mode summary_mode are, in this order:
\* the model output, one per tool call, one per image, the observations, the
\* corrective message
RenderedInFixedOrder(s, summary_mode, ms) ==
    LET nOut == IF s.model_output.some /\ ~summary_mode THEN 1 ELSE 0
        nCalls == Count(s.tool_calls)
        nImages == Count(s.observations_images)
        nObs == IF s.observations.some THEN 1 ELSE 0
        nErr == IF s.error.some THEN 1 ELSE 0
    IN  /\ Len(ms) = nOut + nCalls + nImages + nObs + nErr
        /\ nOut = 1 => ms[1] = [role |-> "assistant", content |-> s.model_output.v]
        /\ \A i \in 1..nCalls :
             LET m == ms[nOut + i]
             IN  /\ m.role = "tool" /\ m.content[1] = "Calling tools:\n"
                 /\ \E at \in DOMAIN m.content : OccursAt(s.tool_calls.v[i].id, m.content, at)
                 /\ \E at \in DOMAIN m.content : OccursAt(s.tool_calls.v[i].name, m.content, at)
        /\ \A i \in 1..nImages :
             ms[nOut + nCalls + i]
               = [role |-> "user",
                  content |-> <<"Observation image: ">> \o s.observations_images.v[i]]
        /\ nObs = 1 =>
             ms[nOut + nCalls + nImages + 1]
               = [role |-> "tool", content |-> <<"Observations:\n">> \o s.observations.v]
        /\ Cardinality({ i \in DOMAIN ms : IsCorrective(ms[i]) }) = nErr
        /\ nErr = 1 =>
             LET m == ms[Len(ms)]
                 id == IF nCalls > 0 THEN s.tool_calls.v[1].id ELSE <<"None">>
             IN  /\ IsCorrective(m)
                 /\ OccursAt(id, m.content, 2)
                 /\ m.content[2 + Len(id)] = "\n"
                 /\ OccursAt(<<"Error occurred: ">> \o s.error.v, m.content, 3 + Len(id))

\* C28: an ActionStep renders its messages in the fixed order model output,
\* one message per tool call in tool-call order, one message per observation
\* image in order, observations, error; when error is set, in both summary
\* modes the last message is exactly one corrective message with the error
\* text and the id of the first tool call, or "None" when the step has no tool
\* call; when error is unset there is no such message.
C28_ActionStepMessageOrder ==
    rendering.step.kind = "Action" =>
        \A i \in DOMAIN Renderings :
            RenderedInFixedOrder(rendering.step, Renderings[i].summary_mode,
                                 Renderings[i].messages)

\* both modes have rendered a step with model output, two tool calls, two
\* images, observations and an error: six and seven messages, the last one
\* naming the first tool call
C28_Witness ==
    /\ BothRendered
    /\ rendering.step.kind = "Action" /\ rendering.step.error.some
    /\ Count(rendering.step.tool_calls) = 2 /\ Count(rendering.step.observations_images) = 2
    /\ Len(rendering.full.value) = 7 /\ Len(rendering.summary.value) = 6
    /\ OccursAt(<<"call_1">>, rendering.full.value[7].content, 2)
    /\ OccursAt(<<"call_1">>, rendering.summary.value[6].content, 2)

\* a step with an error and no tool call is rendered with the call id "None"
ErrorWithoutToolCallNamesNone ==
    (rendering.step.kind = "Action" /\ rendering.step.error.some
        /\ Count(rendering.step.tool_calls) = 0 /\ rendering.full # NoResult) =>
        LET ms == rendering.full.value
        IN  SubSeq(ms[Len(ms)].content, 1, 3) = <<"Call id: ", "None", "\n">>


(***************************************************************************)
(* Properties of the two generation modes                                  *)
(***************************************************************************)
\* the chunks the streaming generate yields for the messages, as the loop and
\* plan() convert them
StreamedChunks(model, messages) ==
    LET res == generate_stream(model, messages)
    IN  [i \in DOMAIN res.chunks |-> FromUtf8Lossy(res.chunks[i])]

\* the chunks a call delivers in the mode stream
DeliveredChunksIn(res, stream) ==
    IF ~res.ok THEN << <<>> >>
    ELSE IF stream THEN [i \in DOMAIN res.chunks |-> FromUtf8Lossy(res.chunks[i])]
    ELSE <<Flatten([i \in DOMAIN res.chunks |-> FromUtf8Lossy(res.chunks[i])])>>

RECURSIVE RunIn(_, _, _, _)
\* the output of iterations k.. of a run of task t on model m with
\* stream_outputs = stream, how it ends, and whether a model call failed
RunIn(m, t, k, stream) ==
    IF k > agent.max_steps THEN [out |-> <<>>, end |-> "done", failed |-> FALSE]
    ELSE LET p == generate_stream(m, PlanInputMessages(t, k = 1))
         IN  IF ~p.ok /\ ~stream THEN [out |-> <<>>, end |-> "panicked", failed |-> TRUE]
             ELSE LET plan_chunks == DeliveredChunksIn(p, stream)
                      g == generate_stream(m, GenMessages(Flatten(plan_chunks), t))
                  IN  IF ~g.ok /\ ~stream
                      THEN [out |-> plan_chunks, end |-> "panicked", failed |-> TRUE]
                      ELSE LET rest == RunIn(m, t, k + 1, stream)
                           IN  [out |-> plan_chunks \o DeliveredChunksIn(g, stream) \o rest.out,
                                end |-> rest.end,
                                failed |-> ~p.ok \/ ~g.ok \/ rest.failed]

\* what async_generate returned to a run without stream_outputs is the
\* concatenation of the chunks the streaming generate yields for the messages
OneShotIsConcatenation ==
    ~agent.stream_outputs =>
        \A r \in RunIds :
            /\ (runs[r].pc = "plan_next" /\ runs[r].plan_stream.items # <<>>) =>
                 Head(runs[r].plan_stream.items)
                   = Flatten(StreamedChunks(shared_model,
                                            PlanInputMessages(runs[r].task, runs[r].step = 1)))
            /\ runs[r].pc = "gen_yield_last" =>
                 runs[r].chunk
                   = Flatten(StreamedChunks(shared_model,
                                            GenMessages(runs[r].buffer, runs[r].task)))

\* a run that ended on a model that fails in neither mode has delivered, put
\* together, the text the run delivers in the other mode
SameTextInBothModes ==
    \A r \in RunIds :
        LET same == RunIn(shared_model, runs[r].task, 1, agent.stream_outputs)
            other == RunIn(shared_model, runs[r].task, 1, ~agent.stream_outputs)
        IN  /\ IsPrefix(runs[r].output, same.out)
            /\ (runs[r].pc = "done" /\ ~same.failed /\ ~other.failed) =>
                 /\ runs[r].output = same.out
                 /\ other.end = "done"
                 /\ Flatten(runs[r].output) = Flatten(other.out)

\* C29: for every message list on which the model stream succeeds, the one-shot
\* generate returns the concatenation, in order, of the chunks the streaming
\* generate yields for the same messages; so, for a model that never fails, the
\* concatenated output of a run with stream_outputs = false equals that of the
\* same run with stream_outputs = true.
C29_OneShotEqualsStreaming == OneShotIsConcatenation /\ SameTextInBothModes

\* a run of two iterations without stream_outputs has ended on the model whose
\* streams hold a byte that is not UTF-8: it delivered four chunks, the
\* streaming run delivers eight, and the texts are the same
C29_Witness ==
    /\ ~agent.stream_outputs /\ agent.max_steps = 2 /\ shared_model = "bad_bytes"
    /\ runs["A"].pc = "done" /\ Len(runs["A"].output) = 4
    /\ Len(RunIn(shared_model, runs["A"].task, 1, TRUE).out) = 8
    /\ ReplacementChar \in Pieces(Flatten(runs["A"].output))
    /\ Flatten(runs["A"].output) = Flatten(RunIn(shared_model, runs["A"].task, 1, TRUE).out)

=============================================================================
